---- MODULE Spec2Model ----
(***************************************************************************)
(* NovaDo: the bidirectional Google Calendar sync engine of                *)
(* app/scheduler.py together with the route handlers of app/routes that    *)
(* create the task states the engine meets.                                *)
(*                                                                         *)
(* The store (users, tasks), the remote calendar (events) and the position *)
(* of the periodic sync batch are the state.  A per-user cycle is modelled *)
(* step by step: credential resolution, one step per listed calendar, the  *)
(* watermark write, the selection of push candidates, one step per pushed  *)
(* task, the return.  Time is a clock that may advance between any two     *)
(* steps and between two readings of the clock inside one step.            *)
(***************************************************************************)
EXTENDS Integers, Sequences, FiniteSets, TLC

(***************************************************************************)
(* Bounds of the model.                                                    *)
(***************************************************************************)
MaxTicks == 1
MaxEdits == 2
MaxScans == 2
MaxStoreFailures == 1

(***************************************************************************)
(* Program constants.                                                      *)
(***************************************************************************)
Hour == 60
ColdStartDays == 1
ImportColdStartDays == 7
WindowDays == 90
ReminderWindow == 60
DebounceSeconds == 300
DefaultMinutesBefore == 30
ReminderInterval == 60
Day == 24 * Hour
ClockBase == 2 * Day

\* db.users.find({}) lists the users in this order.
UserOrder == <<"u1", "u2">>
Users == {UserOrder[i] : i \in DOMAIN UserOrder}
Calendars == {"primary", "work"}

\* Python's None for each kind of field.
NoTime == -1
NoDate == -1
NoEvent == 0
NoCal == "none"
NoTok == "none"
NoTimeOfDay == "none"
NoSel == <<NoCal>>

Terminal == {"completed", "deleted", "skipped"}

VARIABLES
  clock,      \* datetime.utcnow()
  tzOffset,   \* datetime.now() - datetime.utcnow() of the server, in hours
  users,      \* db.users: user id -> user document
  tasks,      \* db.tasks: task id -> task document
  nextTask,   \* the next fresh task _id
  events,     \* the remote calendar service: event id -> event
  nextEvent,  \* the next fresh remote event id
  sync,       \* position and locals of the periodic sync batch
  edits,      \* requests and remote edits so far
  hist,       \* what the current cycle has done (observation only)
  sched,      \* the ReminderScheduler object and its two loop tasks
  rem,        \* the reminder side of the store and the current reminder scan
  fcall       \* the arguments and the result of the function being evaluated

vars == <<clock, tzOffset, users, tasks, nextTask, events, nextEvent, sync, edits,
          hist, sched, rem, fcall>>

\* datetime.utcnow() and datetime.now()
UtcNow == clock
LocalNow == clock + tzOffset * Hour

\* The clock readings a step may see after `clock`: time passes or not.
Later(t) == {t2 \in {t, t + 1} : t2 <= ClockBase + MaxTicks}

(***************************************************************************)
(* Documents.                                                              *)
(***************************************************************************)
\* The fields of a user document the sync engine reads or writes.
UserDoc(access, refresh, selected, lastSync) ==
  [googleAccessToken |-> access, googleRefreshToken |-> refresh,
   googleSelectedCalendars |-> selected, lastCalendarSync |-> lastSync]

\* Python truthiness of googleSelectedCalendars: None and [] are falsy.
Truthy(sel) == sel # NoSel /\ sel # <<>>

\* user.get("googleSelectedCalendars") or ["primary"]
SelectedCalendars(user) ==
  IF Truthy(user.googleSelectedCalendars) THEN user.googleSelectedCalendars
  ELSE <<"primary">>

\* Faulty variant: the last selected calendar is the push target.
TargetCalendarLast(selected) ==
  IF selected # <<>> THEN selected[Len(selected)] ELSE "primary"

\* selected_calendars[0] if selected_calendars else "primary"
TargetCalendar(selected) == IF selected # <<>> THEN Head(selected) ELSE "primary"

TaskIds == DOMAIN tasks
EventIds == DOMAIN events
TasksOf(u) == {t \in TaskIds : tasks[t].user = u}

\* The ids of a set of naturals in increasing order (the store lists
\* documents in insertion order, and ids are handed out in increasing order).
RECURSIVE SortedSeq(_)
SortedSeq(S) ==
  IF S = {} THEN <<>>
  ELSE LET m == CHOOSE x \in S : \A y \in S : x <= y
       IN <<m>> \o SortedSeq(S \ {m})

Range(s) == {s[i] : i \in DOMAIN s}

\* The $set after a successful remote call.
Linked(task, e, cal, now) ==
  [task EXCEPT !.googleEventId = e, !.googleCalendarId = cal,
               !.syncedWithGoogle = TRUE, !.lastSyncedAt = now]

(***************************************************************************)
(* Conflict resolution.                                                    *)
(***************************************************************************)
\* "Check if needs push": never linked, or linked and locally newer.
NeedsPush(task) ==
  \/ task.googleEventId = NoEvent
  \/ /\ task.updatedAt # NoTime
     /\ task.lastSyncedAt # NoTime
     /\ task.updatedAt > task.lastSyncedAt

\* Faulty variant: terminal statuses are not filtered out.
PushCandidateAnyStatus(task) ==
  /\ task.dueDate # NoDate
  /\ task.syncToCalendar
  /\ NeedsPush(task)

\* The filter of the push phase over one task document.
PushCandidate(task) ==
  /\ task.dueDate # NoDate
  /\ task.status \notin Terminal
  /\ task.syncToCalendar
  /\ NeedsPush(task)

\* Faulty variant: the remote version also wins a tie.
RemoteIsNewerOnTie(eventUpdated, taskUpdated) ==
  eventUpdated # NoTime /\ taskUpdated # NoTime /\ eventUpdated >= taskUpdated

\* "Check if Google version is newer (last write wins)"
RemoteIsNewer(eventUpdated, taskUpdated) ==
  eventUpdated # NoTime /\ taskUpdated # NoTime /\ eventUpdated > taskUpdated

(***************************************************************************)
(* Event <-> task mapping.                                                 *)
(***************************************************************************)
\* A description is the number of NovaDo metadata footers that follow the
\* user's own text; build_google_calendar_event appends one.
BuildGoogleCalendarEvent(task) ==
  [summary |-> task.title, description |-> task.description + 1,
   start |-> task.dueDate, time |-> task.dueTime]

(***************************************************************************)
(* The remote calendar service.                                            *)
(***************************************************************************)
\* Faulty variant: the window starts at the watermark itself.
TimeMinAtWatermark(user, now) ==
  IF user.lastCalendarSync # NoTime THEN user.lastCalendarSync
  ELSE now - ColdStartDays * Day

\* Lower and upper bound of the pull window.
TimeMin(user, now) ==
  IF user.lastCalendarSync # NoTime THEN user.lastCalendarSync - Hour
  ELSE now - ColdStartDays * Day
TimeMax(now) == now + WindowDays * Day

\* events().list: the events of one calendar of one account inside the
\* window, ordered by start time.
ListedIds(owner, cal, tmin, tmax) ==
  {e \in EventIds : /\ events[e].owner = owner
                    /\ events[e].calendarId = cal
                    /\ events[e].start > tmin
                    /\ events[e].start < tmax}

RECURSIVE ByStart(_)
ByStart(S) ==
  IF S = {} THEN <<>>
  ELSE LET m == CHOOSE x \in S : \A y \in S :
                  \/ events[x].start < events[y].start
                  \/ events[x].start = events[y].start /\ x <= y
       IN <<m>> \o ByStart(S \ {m})

EventsList(owner, cal, tmin, tmax) ==
  LET ids == ByStart(ListedIds(owner, cal, tmin, tmax))
  IN [i \in DOMAIN ids |-> [id |-> ids[i], ev |-> events[ids[i]]]]

\* events().update finds the event only in its own calendar and account.
RemoteHas(owner, cal, e) ==
  e \in EventIds /\ events[e].owner = owner /\ events[e].calendarId = cal

\* The event stored by events().insert / events().update at remote time `now`.
RemoteEvent(owner, cal, body, now) ==
  [owner |-> owner, calendarId |-> cal, summary |-> body.summary,
   description |-> body.description, start |-> body.start, time |-> body.time,
   updated |-> now]

(***************************************************************************)
(* Initial states.  No task exists and the scheduler is idle; no sync has  *)
(* been done yet.  u1 has connected Google Calendar and selected two       *)
(* calendars; u2, when connected, never chose and falls back to "primary". *)
(* The remote calendars hold whatever their owner put there.               *)
(***************************************************************************)
TzOffsets == {0}
EventStarts == {ClockBase + Day}

NoDoc == UserDoc(NoTok, NoTok, NoSel, NoTime)

\* A start.dateTime that datetime.fromisoformat rejects.
Malformed == "malformed"

\* What u1's Google calendars may hold before NovaDo first looks at them.
Foreign(cal) ==
  [owner |-> "u1", calendarId |-> cal, summary |-> "b", description |-> 0,
   start |-> ClockBase + Day, time |-> NoTimeOfDay, updated |-> ClockBase - 1]

IdleSync ==
  [pc |-> "idle", queue |-> <<>>, uid |-> "u1", udoc |-> NoDoc,
   selected |-> <<>>, cals |-> <<>>, cal |-> NoCal, tmin |-> 0, tmax |-> 0,
   evs |-> <<>>, toPush |-> <<>>, target |-> NoCal, pulled |-> 0, pushed |-> 0]

\* Observation of the running cycle, reset when a cycle starts.
\*   second     - the previous cycle of this user ran to its end without any
\*                failure and nothing was mutated, locally or remotely, since
\*   clean      - no call of this cycle has failed so far
\*   listed     - the calendars listed so far
\*   errored    - the calendars whose listing failed with a non-auth error
\*   revokedAt  - how many calendars had been listed when an authentication
\*                error was met (0: none was)
\*   snap       - the user's tasks as the push phase read them
\*   candidates - tasks_to_push as selected
\*   attempted  - the tasks a remote insert/update was attempted for
\*   failed     - the tasks whose remote call raised
\*   pushes, pulls - remote writes attempted, local tasks created/overwritten
\*   last       - what the last step of the cycle did
\* Observation of the running batch:
\*   batch      - the users the batch loops over
\*   ran        - the users whose cycle was entered
\*   revoked    - the users whose credentials were cleared in the pull phase
\*   raised     - the users whose cycle ended with an exception
\*   atStart    - the user documents as stored when the batch started
NoStep == [kind |-> "none"]
NoCycle ==
  [second |-> FALSE, clean |-> TRUE, listed |-> <<>>, errored |-> {},
   revokedAt |-> 0, snap |-> <<>>, candidates |-> <<>>, attempted |-> <<>>,
   failed |-> <<>>, pushes |-> 0, pulls |-> 0, last |-> NoStep]
NoHist ==
  [quiet |-> [u \in Users |-> FALSE], cyc |-> NoCycle, batch |-> <<>>,
   ran |-> <<>>, revoked |-> {}, raised |-> {},
   atStart |-> [u \in Users |-> NoDoc]]

\* The scheduler and its loop tasks.
\*   running   - ReminderScheduler.running
\*   reminder  - the reminder loop task: "none" not created, "wait" created
\*               or at asyncio.sleep, "check" inside _check_reminders, "done"
\*   syncTask  - the sync loop task: "none", "alive" or "done"; an alive task
\*               stands where sync.pc says ("idle": at asyncio.sleep)
\*   pending   - the tasks whose cancellation is requested and not delivered
\*   stop      - stop(): "no" not called, "reminder" / "sync" awaiting that
\*               task, "returned"
\*   inFlight  - a batch was under way when stop() was called
\*   checks, batches      - parity of the reminder checks / batches begun
\*   lastCheck, lastBatch - how the last one ended: "none", "ok", "raised"
\*   started   - the module's _scheduler_started
\*   orphans   - the loop tasks that were alive when start() made new ones
\*   call      - the last start_scheduler / stop_scheduler call
\* No task carries a reminder and no function is being evaluated.
NoRem == [pc |-> "none"]
NoCall == [fn |-> "none"]

Constructed ==
  [running |-> FALSE, reminder |-> "none", syncTask |-> "none", pending |-> {},
   stop |-> "no", inFlight |-> FALSE, checks |-> 0, batches |-> 0,
   lastCheck |-> "none", lastBatch |-> "none",
   started |-> FALSE, orphans |-> {}, call |-> NoCall]

\* start() under start_scheduler(): running = True, both loop tasks are
\* created, and _scheduler_started = True.
Started(s) ==
  [s EXCEPT !.running = TRUE, !.reminder = "wait", !.syncTask = "alive",
            !.started = TRUE]

InitStore(calendar, u2Connected) ==
  /\ clock = ClockBase
  /\ tzOffset \in TzOffsets
  /\ users = [u \in Users |->
                IF u = "u1" THEN UserDoc("at", "rt", <<"primary", "work">>, NoTime)
                ELSE IF u2Connected THEN UserDoc("at", "rt", NoSel, NoTime)
                ELSE NoDoc]
  /\ tasks = <<>>
  /\ nextTask = 1
  /\ events = calendar
  /\ nextEvent = Len(calendar) + 1
  /\ sync = IdleSync
  /\ edits = 0
  /\ hist = NoHist

\* The scheduler was started when the application came up.
InitWith(calendar, u2Connected) ==
  /\ InitStore(calendar, u2Connected)
  /\ sched = Started(Constructed)
  /\ rem = NoRem
  /\ fcall = NoCall

\* u1's calendars are empty: every task is authored in NovaDo.
Init == InitWith(<<>>, FALSE)

\* u1's "work" calendar already holds an event made elsewhere.
InitRemote == InitWith(<<Foreign("work")>>, FALSE)

\* Two connected users, for the batch loop.
InitBatch == InitWith(<<Foreign("work")>>, TRUE)

\* Two connected users; both calendars of u1 and the primary calendar of u2
\* hold an event made elsewhere.
InitSelect ==
  InitWith(<<Foreign("primary"), Foreign("work"),
             [Foreign("primary") EXCEPT !.owner = "u2"]>>, TRUE)

\* u1's "primary" calendar holds an event with a malformed start time and,
\* after it, a well-formed one; the "work" calendar holds a well-formed one.
InitMalformed ==
  InitWith(<<[Foreign("primary") EXCEPT !.time = Malformed,
                                        !.start = ClockBase + Day - 1],
             Foreign("primary"), Foreign("work")>>, FALSE)

\* The application is coming up: the scheduler is constructed, not started.
InitLoop ==
  /\ InitStore(<<Foreign("work")>>, FALSE)
  /\ sched = Constructed
  /\ rem = NoRem
  /\ fcall = NoCall

Idle == sync.pc = "idle"

\* Everything but the scheduler, the batch position and the observation.
world == <<clock, tzOffset, users, tasks, nextTask, events, nextEvent, edits,
           rem, fcall>>

(***************************************************************************)
(* Time.                                                                   *)
(***************************************************************************)
Tick ==
  /\ clock < ClockBase + MaxTicks
  /\ clock' = clock + 1
  /\ UNCHANGED <<edits, tzOffset, rem, fcall, sched, users, tasks, nextTask, events, nextEvent, sync, hist>>

\* Any mutation outside the sync cycle ends the "immediate succession" of
\* two cycles.
Mutated ==
  /\ edits < MaxEdits
  /\ edits' = edits + 1
  /\ hist' = [hist EXCEPT !.quiet = [u \in Users |-> FALSE], !.cyc = NoCycle]

\* A mutation by a route whose effect is observed: `step` records what the
\* handler was asked and the tasks it found.
MutatedBy(step) ==
  /\ edits < MaxEdits
  /\ edits' = edits + 1
  /\ hist' = [hist EXCEPT !.quiet = [u \in Users |-> FALSE],
                          !.cyc = [NoCycle EXCEPT !.last = step]]

(***************************************************************************)
(* The remote side: somebody edits the calendar in Google.                 *)
(***************************************************************************)
RemoteEdit(e) ==
  /\ Idle
  /\ e \in EventIds
  /\ events' = [events EXCEPT ![e].summary = "b", ![e].updated = UtcNow]
  /\ Mutated
  /\ UNCHANGED <<clock, tzOffset, rem, fcall, sched, users, tasks, nextTask, nextEvent, sync>>

\* Somebody deletes the event in Google: it is no longer listed, and an
\* update of it is refused.
RemoteDelete(e) ==
  /\ Idle
  /\ e \in EventIds
  /\ events' = [x \in EventIds \ {e} |-> events[x]]
  /\ Mutated
  /\ UNCHANGED <<clock, tzOffset, rem, fcall, sched, users, tasks, nextTask, nextEvent, sync>>

(***************************************************************************)
(* Route handlers (app/routes/tasks.py, app/routes/calendar.py).           *)
(***************************************************************************)
\* POST /tasks.  linked: the immediate push to the calendar succeeded
\* (credentials resolved and events().insert returned).
CreateTask(u, due, flag, linked) ==
  /\ Idle
  /\ LET connected == users[u].googleAccessToken # NoTok
         syncFlag == flag \/ connected
         doPush == syncFlag /\ due # NoDate /\ connected /\ linked
         cal == TargetCalendar(SelectedCalendars(users[u]))
         doc == [user |-> u, title |-> "a", description |-> 0, dueDate |-> due,
                 dueTime |-> NoTimeOfDay, status |-> "scheduled",
                 syncToCalendar |-> syncFlag, googleEventId |-> NoEvent,
                 googleCalendarId |-> NoCal, syncedWithGoogle |-> FALSE,
                 lastSyncedAt |-> NoTime, updatedAt |-> LocalNow]
     IN \E t2 \in Later(clock) :
          /\ linked => syncFlag /\ due # NoDate /\ connected
          /\ clock' = t2
          /\ IF doPush
             THEN /\ events' = (nextEvent :> RemoteEvent(u, cal,
                                   BuildGoogleCalendarEvent(doc), t2)) @@ events
                  /\ nextEvent' = nextEvent + 1
                  /\ tasks' = (nextTask :> [doc EXCEPT
                                   !.googleEventId = nextEvent,
                                   !.googleCalendarId = cal,
                                   !.syncedWithGoogle = TRUE,
                                   !.lastSyncedAt = t2 + tzOffset * Hour]) @@ tasks
             ELSE /\ tasks' = (nextTask :> doc) @@ tasks
                  /\ UNCHANGED <<events, nextEvent>>
  /\ nextTask' = nextTask + 1
  /\ Mutated
  /\ UNCHANGED <<tzOffset, rem, fcall, sched, users, sync>>

\* The $set of PUT /tasks/{id} for the edits the model draws.
Changes == {"touch", "completed", "syncOn", "syncOff"}
ApplyChange(task, change, now) ==
  [task EXCEPT
     !.status = IF change = "completed" THEN "completed" ELSE @,
     !.syncToCalendar = IF change = "syncOn" THEN TRUE
                        ELSE IF change = "syncOff" THEN FALSE ELSE @,
     !.updatedAt = now]

\* PUT /tasks/{id}, with sync_task_to_calendar(..., "update") after the
\* store write.  remoteOk: the events().update call succeeded.
UpdateTask(t, change, remoteOk) ==
  /\ Idle
  /\ t \in TaskIds
  /\ LET new == ApplyChange(tasks[t], change, LocalNow)
         u == new.user
         calls == /\ new.googleEventId # NoEvent
                  /\ users[u].googleAccessToken # NoTok
                  /\ new.dueDate # NoDate
     IN /\ tasks' = [tasks EXCEPT ![t] = new]
        /\ remoteOk => calls /\ RemoteHas(u, new.googleCalendarId, new.googleEventId)
        /\ IF calls /\ remoteOk
           THEN events' = [events EXCEPT ![new.googleEventId] =
                   RemoteEvent(@.owner, @.calendarId,
                               BuildGoogleCalendarEvent(new), UtcNow)]
           ELSE UNCHANGED events
  /\ Mutated
  /\ UNCHANGED <<clock, tzOffset, rem, fcall, sched, users, nextTask, nextEvent, sync>>

\* POST /calendar/push/{task_id} with valid credentials: update the event
\* of a linked task, or insert one, on the calendar the request names.
\* ok: the remote call returned.  lastSyncedAt and updatedAt are two
\* readings of the clock.
PushTaskToCalendar(t, cal, ok) ==
  /\ Idle
  /\ t \in TaskIds
  /\ users[tasks[t].user].googleAccessToken # NoTok
  /\ tasks[t].dueDate # NoDate
  /\ LET task == tasks[t]
         isUpdate == task.googleEventId # NoEvent
         e == IF isUpdate THEN task.googleEventId ELSE nextEvent
     IN /\ (ok /\ isUpdate) => RemoteHas(task.user, cal, e)
        /\ IF ok
           THEN \E t2 \in Later(clock) :
                  /\ events' = (e :> RemoteEvent(task.user, cal,
                                    BuildGoogleCalendarEvent(task), UtcNow)) @@ events
                  /\ nextEvent' = IF isUpdate THEN nextEvent ELSE nextEvent + 1
                  /\ tasks' = [tasks EXCEPT ![t] =
                                 [Linked(@, e, cal, UtcNow) EXCEPT !.updatedAt = t2]]
                  /\ clock' = t2
           ELSE UNCHANGED <<events, nextEvent, tasks, clock>>
  /\ Mutated
  /\ UNCHANGED <<tzOffset, rem, fcall, sched, users, nextTask, sync>>

\* POST /calendar/sync: the tasks the import loop leaves behind.  `found`
\* is the sequence of listed events (with their calendar) still to import.
RECURSIVE ImportEvents(_, _, _, _, _)
ImportEvents(found, tsk, nxt, u, now) ==
  IF found = <<>> THEN [tasks |-> tsk, next |-> nxt]
  ELSE LET f == Head(found)
           existing == \E t \in DOMAIN tsk :
                          /\ tsk[t].user = u
                          /\ tsk[t].googleEventId = f.id
                          /\ tsk[t].googleCalendarId = f.cal
           doc == [user |-> u, title |-> f.ev.summary,
                   description |-> f.ev.description, dueDate |-> f.ev.start,
                   dueTime |-> f.ev.time, status |-> "scheduled",
                   syncToCalendar |-> FALSE, googleEventId |-> f.id,
                   googleCalendarId |-> f.cal, syncedWithGoogle |-> FALSE,
                   lastSyncedAt |-> NoTime, updatedAt |-> now]
       IN IF existing THEN ImportEvents(Tail(found), tsk, nxt, u, now)
          ELSE ImportEvents(Tail(found), (nxt :> doc) @@ tsk, nxt + 1, u, now)

\* "existing = db.tasks.find_one(...)" of import_calendar, as "if existing"
\* reads it: find_one is a coroutine function and the call is not awaited,
\* so existing is a coroutine object, which is true whatever the store
\* holds.
ImportExisting(u, e) == TRUE

\* POST /calendar/import with import_as = "tasks" and valid credentials:
\* one task for every listed event for which "if existing" is false.
\* fcall holds the request, the listed events, the tasks of the user when
\* the request arrived and the count in the response.
ImportCalendar(u, cal, back, forward) ==
  /\ Idle
  /\ users[u].googleAccessToken # NoTok
  /\ LET listing == EventsList(u, cal, UtcNow - back * Day, UtcNow + forward * Day)
         fresh == SelectSeq(listing, LAMBDA x : ~ImportExisting(u, x.id))
         doc(x) == [user |-> u, title |-> x.ev.summary,
                    description |-> x.ev.description, dueDate |-> x.ev.start,
                    dueTime |-> x.ev.time, status |-> "scheduled",
                    syncToCalendar |-> FALSE, googleEventId |-> x.id,
                    googleCalendarId |-> cal, syncedWithGoogle |-> FALSE,
                    lastSyncedAt |-> NoTime, updatedAt |-> LocalNow]
     IN /\ tasks' = [t \in TaskIds \cup (nextTask .. nextTask + Len(fresh) - 1) |->
                       IF t \in TaskIds THEN tasks[t]
                       ELSE doc(fresh[t - nextTask + 1])]
        /\ nextTask' = nextTask + Len(fresh)
        /\ fcall' = [fn |-> "import_calendar", user |-> u, cal |-> cal,
                     listed |-> {listing[i].id : i \in DOMAIN listing},
                     had |-> {tasks[t].googleEventId : t \in TasksOf(u)},
                     count |-> Len(fresh)]
  /\ UNCHANGED <<clock, tzOffset, users, events, nextEvent, edits, sync, hist,
                 sched, rem>>

\* The listings of the calendars of `cals` that could be listed.
RECURSIVE Listings(_, _, _, _, _)
Listings(cals, bad, u, tmin, tmax) ==
  IF cals = <<>> THEN <<>>
  ELSE LET c == Head(cals)
           l == EventsList(u, c, tmin, tmax)
           here == IF c \in bad THEN <<>>
                   ELSE [i \in DOMAIN l |-> [id |-> l[i].id, ev |-> l[i].ev, cal |-> c]]
       IN here \o Listings(Tail(cals), bad, u, tmin, tmax)

\* POST /calendar/sync with valid credentials.  bad: the selected calendars
\* whose listing fails.
SyncCalendar(u, bad) ==
  /\ Idle
  /\ users[u].googleAccessToken # NoTok
  /\ LET selected == SelectedCalendars(users[u])
         tmin == IF users[u].lastCalendarSync # NoTime
                 THEN users[u].lastCalendarSync - Hour
                 ELSE UtcNow - ImportColdStartDays * Day
         kept == {t \in TaskIds :
                    ~ /\ tasks[t].user = u
                      /\ tasks[t].googleCalendarId # NoCal
                      /\ tasks[t].googleCalendarId \notin Range(selected)}
         got == ImportEvents(Listings(selected, bad, u, tmin, TimeMax(UtcNow)),
                             [t \in kept |-> tasks[t]], nextTask, u, LocalNow)
     IN /\ bad \subseteq Range(selected)
        /\ tasks' = got.tasks
        /\ nextTask' = got.next
        /\ users' = [users EXCEPT ![u].lastCalendarSync = UtcNow]
  /\ Mutated
  /\ UNCHANGED <<clock, tzOffset, rem, fcall, sched, events, nextEvent, sync>>

\* Faulty variant: every previously selected calendar counts as deselected.
DeselectedCalendarsAll(previously, newly) == Range(previously)

\* set(previously_selected) - set(newly_selected)
DeselectedCalendars(previously, newly) == Range(previously) \ Range(newly)

\* The selections a request may carry.
Selections == {<<"primary">>, <<"work">>, <<"primary", "work">>}

\* POST /calendar/calendars/select: delete the user's tasks of every
\* deselected calendar, then store the new selection.
SelectCalendars(u, newly) ==
  /\ Idle
  /\ LET previously == SelectedCalendars(users[u])
         deselected == DeselectedCalendars(previously, newly)
         kept == {t \in TaskIds : ~ /\ tasks[t].user = u
                                    /\ tasks[t].googleCalendarId \in deselected}
     IN /\ tasks' = [t \in kept |-> tasks[t]]
        /\ users' = [users EXCEPT ![u].googleSelectedCalendars = newly]
        /\ MutatedBy([kind |-> "select_calendars", user |-> u, previously |-> previously,
                      newly |-> newly, before |-> tasks])
  /\ UNCHANGED <<clock, tzOffset, rem, fcall, sched, nextTask, events, nextEvent, sync>>

\* Faulty variant: the tasks are unlinked rather than deleted.
TasksAfterDisconnectUnlinked(tsk, u) ==
  [t \in DOMAIN tsk |->
     IF tsk[t].user = u
     THEN [tsk[t] EXCEPT !.googleEventId = NoEvent, !.googleCalendarId = NoCal]
     ELSE tsk[t]]

\* synced_tasks = [t for t in all_tasks if t.get("googleEventId")], each
\* removed with delete_one.
TasksAfterDisconnect(tsk, u) ==
  [t \in {x \in DOMAIN tsk : ~ /\ tsk[x].user = u
                                /\ tsk[x].googleEventId # NoEvent} |-> tsk[t]]

\* POST /calendar/disconnect: delete the user's synced tasks, then set the
\* Google fields of the user document to None.
DisconnectGoogle(u) ==
  /\ Idle
  /\ tasks' = TasksAfterDisconnect(tasks, u)
  /\ users' = [users EXCEPT ![u] = UserDoc(NoTok, NoTok, NoSel, NoTime)]
  /\ MutatedBy([kind |-> "disconnect_google", user |-> u, before |-> tasks])
  /\ UNCHANGED <<clock, tzOffset, rem, fcall, sched, nextTask, events, nextEvent, sync>>

(***************************************************************************)
(* The periodic batch: _bidirectional_sync_all_users.                      *)
(***************************************************************************)
\* users = [u for u in all_users if u.get("googleAccessToken")], as
\* snapshots taken when the batch starts.
RECURSIVE ConnectedUsers(_)
ConnectedUsers(order) ==
  IF order = <<>> THEN <<>>
  ELSE (IF users[Head(order)].googleAccessToken # NoTok
        THEN <<[id |-> Head(order), doc |-> users[Head(order)]]>> ELSE <<>>)
       \o ConnectedUsers(Tail(order))

BatchBegin ==
  /\ Idle
  /\ ConnectedUsers(UserOrder) # <<>>
  /\ sync' = [IdleSync EXCEPT !.pc = "creds", !.queue = ConnectedUsers(UserOrder)]
  /\ hist' = [hist EXCEPT
       !.batch = [i \in DOMAIN ConnectedUsers(UserOrder) |->
                    ConnectedUsers(UserOrder)[i].id],
       !.ran = <<>>, !.revoked = {}, !.raised = {}, !.atStart = users,
       !.cyc = NoCycle]
  /\ UNCHANGED <<edits, clock, tzOffset, rem, fcall, users, tasks, nextTask, events, nextEvent>>

\* A batch of the running sync loop.
BatchStart == BatchBegin /\ UNCHANGED sched

\* The end of one user's cycle inside the batch loop: on to the next user.
AfterCycle(s) ==
  [IdleSync EXCEPT !.queue = Tail(s.queue),
                   !.pc = IF Len(s.queue) > 1 THEN "creds" ELSE "idle"]

(***************************************************************************)
(* get_credentials_from_user: what the provider can answer for a user      *)
(* document.  Whether the token is expired and whether Google accepts the  *)
(* refresh is decided outside the program.                                 *)
(***************************************************************************)
CredOutcomes(user) ==
  IF user.googleAccessToken = NoTok THEN {"none"}
  ELSE IF user.googleRefreshToken # NoTok THEN {"valid", "refreshed", "none"}
  ELSE {"valid"}

\* The $set of _sync_user_calendar when credentials are None
\* (googleTokenExpiry, which nothing else writes, is left out).
ClearTokens(user) ==
  [user EXCEPT !.googleAccessToken = NoTok, !.googleRefreshToken = NoTok]

\* The $set of _pull_from_google on an authentication error.
ClearOnRevocation(user) ==
  [user EXCEPT !.googleAccessToken = NoTok, !.googleRefreshToken = NoTok,
               !.googleSelectedCalendars = NoSel]

(***************************************************************************)
(* _sync_user_calendar, first step: resolve credentials, then either       *)
(* abort with False or enter the pull phase (window computed once).        *)
(***************************************************************************)
SyncUserCalendarStart(outcome) ==
  /\ sync.pc = "creds"
  /\ LET uid == Head(sync.queue).id
         udoc == Head(sync.queue).doc
         fresh == [NoCycle EXCEPT !.second = hist.quiet[uid]]
     IN /\ outcome \in CredOutcomes(udoc)
        /\ IF outcome = "none"
           THEN /\ users' = IF udoc.googleAccessToken # NoTok
                            THEN [users EXCEPT ![uid] = ClearTokens(@)]
                            ELSE users
                /\ sync' = AfterCycle(sync)
                /\ hist' = [hist EXCEPT
                     !.cyc = [fresh EXCEPT
                        !.last = [kind |-> "credsNone", user |-> uid,
                                  before |-> users[uid], result |-> FALSE]],
                     !.ran = Append(@, uid),
                     !.quiet = [@ EXCEPT ![uid] = FALSE]]
           ELSE /\ UNCHANGED users
                /\ sync' = [sync EXCEPT
                     !.pc = "list", !.uid = uid, !.udoc = udoc,
                     !.selected = SelectedCalendars(udoc),
                     !.cals = SelectedCalendars(udoc),
                     !.tmin = TimeMin(udoc, UtcNow), !.tmax = TimeMax(UtcNow)]
                /\ hist' = [hist EXCEPT !.cyc = fresh, !.ran = Append(@, uid)]
  /\ UNCHANGED <<edits, clock, tzOffset, rem, fcall, sched, tasks, nextTask, events, nextEvent>>

\* Faulty variant: an exception of one user's cycle ends the batch.
AfterCycleErrorAbort(s) == IdleSync

\* "except Exception" around one user's cycle in the batch loop: count the
\* error and go on with the next user.
AfterCycleError(s) == AfterCycle(s)

\* _sync_user_calendar raises: the credentials are None and the update_one
\* that clears the stored tokens fails, outside any try block of the cycle.
SyncUserCalendarRaises ==
  /\ sync.pc = "creds"
  /\ LET uid == Head(sync.queue).id
         udoc == Head(sync.queue).doc
         fresh == [NoCycle EXCEPT !.second = hist.quiet[uid]]
     IN /\ "none" \in CredOutcomes(udoc)
        /\ udoc.googleAccessToken # NoTok
        /\ sync' = AfterCycleError(sync)
        /\ hist' = [hist EXCEPT
             !.cyc = [fresh EXCEPT
                !.clean = FALSE,
                !.last = [kind |-> "cycleRaised", user |-> uid]],
             !.ran = Append(@, uid),
             !.raised = @ \cup {uid},
             !.quiet = [@ EXCEPT ![uid] = FALSE]]
  /\ UNCHANGED <<edits, clock, tzOffset, rem, fcall, sched, users, tasks, nextTask, events, nextEvent>>

(***************************************************************************)
(* _pull_from_google.                                                      *)
(***************************************************************************)
\* What events().list(...).execute() can do.
ListOutcomes == {"ok", "auth", "error"}

\* 'invalid_grant' in error_str or 'invalid_client' in error_str or
\* 'Token has been expired or revoked' in error_str
IsAuthError(outcome) == outcome = "auth"

\* Where the calendar loop goes once the current calendar is done.
AfterCalendar(s) ==
  [s EXCEPT !.cals = Tail(s.cals), !.evs = <<>>, !.cal = NoCal,
            !.pc = IF Len(s.cals) > 1 THEN "list" ELSE "mark"]

\* Faulty variant: after an error the calendar loop is left.
AfterCalendarErrorAbort(s) ==
  [s EXCEPT !.cals = <<>>, !.evs = <<>>, !.cal = NoCal, !.pc = "mark"]

\* except Exception (not an authentication error): log, next calendar.
AfterCalendarError(s) == AfterCalendar(s)

\* Faulty variant: revocation stops only the current calendar.
AfterRevocationContinue(s) == AfterCalendar(s)

\* "Stop trying to sync this user's calendars": return from the pull phase.
AfterRevocation(s) ==
  [s EXCEPT !.cals = <<>>, !.evs = <<>>, !.cal = NoCal, !.pc = "select"]

\* Faulty variant: the tasks of the calendar whose event is not listed any
\* more are removed.
TasksAfterListingPruned(tsk, u, cal, listing) ==
  [t \in {x \in DOMAIN tsk :
            ~ /\ tsk[x].user = u
              /\ tsk[x].googleCalendarId = cal
              /\ \A i \in DOMAIN listing : listing[i].id # tsk[x].googleEventId}
     |-> tsk[t]]

\* The stored tasks once a calendar has been listed: the pull loop runs over
\* the listed events only and has no step for a task whose event is absent.
TasksAfterListing(tsk, u, cal, listing) == tsk

\* One iteration of "for calendar_id in selected_calendars" up to the
\* result of the listing call.
PullList(outcome) ==
  /\ sync.pc = "list"
  /\ outcome \in ListOutcomes
  /\ LET cal == Head(sync.cals)
         listing == EventsList(sync.uid, cal, sync.tmin, sync.tmax)
         seen == [hist EXCEPT
                    !.cyc.listed = Append(@, cal),
                    !.cyc.clean = @ /\ outcome = "ok",
                    !.cyc.errored = IF outcome = "error" THEN @ \cup {cal} ELSE @,
                    !.cyc.revokedAt = IF outcome = "auth"
                                      THEN Len(hist.cyc.listed) + 1 ELSE @,
                    !.revoked = IF outcome = "auth" THEN @ \cup {sync.uid} ELSE @,
                    !.cyc.last = [kind |-> "list", cal |-> cal,
                                  outcome |-> outcome]]
     IN /\ hist' = seen
        /\ IF outcome = "ok"
           THEN /\ sync' = IF listing = <<>> THEN AfterCalendar(sync)
                           ELSE [sync EXCEPT !.pc = "event", !.cal = cal,
                                             !.evs = listing]
                /\ tasks' = TasksAfterListing(tasks, sync.uid, cal, listing)
                /\ UNCHANGED users
           ELSE IF IsAuthError(outcome)
           THEN /\ users' = [users EXCEPT ![sync.uid] = ClearOnRevocation(@)]
                /\ sync' = AfterRevocation(sync)
                /\ UNCHANGED tasks
           ELSE /\ sync' = AfterCalendarError(sync)
                /\ UNCHANGED <<users, tasks>>
  /\ UNCHANGED <<edits, clock, tzOffset, rem, fcall, sched, nextTask, events, nextEvent>>

\* db.tasks.find_one({"user": user_oid, "googleEventId": event_id})
FindByEvent(u, e) ==
  LET hits == {t \in TasksOf(u) : tasks[t].googleEventId = e}
  IN IF hits = {} THEN 0 ELSE CHOOSE t \in hits : \A t2 \in hits : t <= t2

\* The $set of the pull phase on an existing task.
Overwrite(task, ev, now) ==
  [task EXCEPT !.title = ev.summary, !.description = ev.description,
               !.dueDate = ev.start, !.dueTime = ev.time,
               !.lastSyncedAt = now]

\* Faulty variant: the calendar of the pulled event is not recorded.
PulledTaskWithoutCalendar(u, e, cal, ev, t1, t2) ==
  [user |-> u, title |-> ev.summary, description |-> ev.description,
   dueDate |-> ev.start, dueTime |-> ev.time, status |-> "scheduled",
   syncToCalendar |-> TRUE, googleEventId |-> e, googleCalendarId |-> NoCal,
   syncedWithGoogle |-> TRUE, lastSyncedAt |-> t1, updatedAt |-> t2]

\* new_task of the pull phase; lastSyncedAt and updatedAt are two readings
\* of the clock.
PulledTask(u, e, cal, ev, t1, t2) ==
  [user |-> u, title |-> ev.summary, description |-> ev.description,
   dueDate |-> ev.start, dueTime |-> ev.time, status |-> "scheduled",
   syncToCalendar |-> TRUE, googleEventId |-> e, googleCalendarId |-> cal,
   syncedWithGoogle |-> TRUE, lastSyncedAt |-> t1, updatedAt |-> t2]

\* One iteration of "for event in events".
PullEvent ==
  /\ sync.pc = "event"
  /\ LET e == Head(sync.evs).id
         ev == Head(sync.evs).ev
         t == FindByEvent(sync.uid, e)
         rest == IF Len(sync.evs) > 1 THEN [sync EXCEPT !.evs = Tail(@)]
                 ELSE AfterCalendar(sync)
     IN IF ev.time = Malformed
        THEN \* convert_event_time_to_user_tz raises ValueError, which the
             \* "except Exception" of the calendar catches: next calendar.
             /\ sync' = AfterCalendarError(sync)
             /\ hist' = [hist EXCEPT
                  !.cyc.clean = FALSE,
                  !.cyc.last = [kind |-> "eventRaised", cal |-> sync.cal, ev |-> ev,
                                skipped |-> Len(sync.evs) - 1]]
             /\ UNCHANGED <<tasks, clock, nextTask>>
        ELSE IF t # 0
        THEN /\ IF RemoteIsNewer(ev.updated, tasks[t].updatedAt)
                THEN /\ tasks' = [tasks EXCEPT ![t] = Overwrite(@, ev, UtcNow)]
                     /\ sync' = [rest EXCEPT !.pulled = @ + 1]
                     /\ hist' = [hist EXCEPT
                          !.cyc.pulls = @ + 1,
                          !.cyc.last = [kind |-> "overwrite", task |-> t, ev |-> ev,
                                        before |-> tasks[t], at |-> UtcNow]]
                ELSE /\ UNCHANGED tasks
                     /\ sync' = rest
                     /\ hist' = [hist EXCEPT
                          !.cyc.last = [kind |-> "keep", task |-> t, ev |-> ev,
                                        before |-> tasks[t], at |-> UtcNow]]
             /\ UNCHANGED <<clock, nextTask>>
        ELSE \E t2 \in Later(clock) :
                        /\ tasks' = (nextTask :> PulledTask(sync.uid, e, sync.cal, ev, clock, t2))
                         @@ tasks
             /\ nextTask' = nextTask + 1
             /\ clock' = t2
             /\ sync' = [rest EXCEPT !.pulled = @ + 1]
             /\ hist' = [hist EXCEPT
                  !.cyc.pulls = @ + 1,
                  !.cyc.last = [kind |-> "create", task |-> nextTask, ev |-> ev]]
  /\ UNCHANGED <<edits, tzOffset, rem, fcall, sched, users, events, nextEvent>>

\* "Update last sync time", the last statement of the pull phase.
PullMark ==
  /\ sync.pc = "mark"
  /\ users' = [users EXCEPT ![sync.uid].lastCalendarSync = UtcNow]
  /\ sync' = [sync EXCEPT !.pc = "select"]
  /\ hist' = [hist EXCEPT !.cyc.last = [kind |-> "mark", at |-> UtcNow]]
  /\ UNCHANGED <<edits, clock, tzOffset, rem, fcall, sched, tasks, nextTask, events, nextEvent>>

(***************************************************************************)
(* _push_to_google.                                                        *)
(***************************************************************************)
\* tasks_to_push: the user's task documents, as read by one find(), that
\* pass the filter, in store order.
TasksToPush(u) ==
  LET ids == SortedSeq({t \in TasksOf(u) : PushCandidate(tasks[t])})
  IN [i \in DOMAIN ids |-> [id |-> ids[i], doc |-> tasks[ids[i]]]]

PushSelect ==
  /\ sync.pc = "select"
  /\ sync' = [sync EXCEPT !.toPush = TasksToPush(sync.uid),
                          !.target = TargetCalendar(sync.selected),
                          !.pc = IF TasksToPush(sync.uid) = <<>> THEN "ret" ELSE "push"]
  /\ hist' = [hist EXCEPT
       !.cyc.snap = [t \in TasksOf(sync.uid) |-> tasks[t]],
       !.cyc.candidates = [i \in DOMAIN TasksToPush(sync.uid) |->
                             TasksToPush(sync.uid)[i].id],
       !.cyc.last = [kind |-> "select"]]
  /\ UNCHANGED <<edits, clock, tzOffset, rem, fcall, sched, users, tasks, nextTask, events, nextEvent>>

\* What events().insert / events().update (.execute()) can do.
CallOutcomes == {"ok", "raise"}

\* Faulty variant: a failed remote call ends the push loop.
AfterPushFailureAbort(s) == [s EXCEPT !.toPush = <<>>, !.pc = "ret"]

\* except Exception inside the loop: log, next candidate.
AfterPushFailure(s) ==
  [s EXCEPT !.toPush = Tail(@), !.pc = IF Len(s.toPush) > 1 THEN "push" ELSE "ret"]

\* "Update task with sync info" and pushed_count += 1.
AfterPushSuccess(s) ==
  [s EXCEPT !.toPush = Tail(@), !.pushed = @ + 1,
            !.pc = IF Len(s.toPush) > 1 THEN "push" ELSE "ret"]

\* Faulty variant: the sync info is written whether or not the remote call
\* returned.
TaskAfterPushSpeculative(task, outcome, e, cal, now) == Linked(task, e, cal, now)

\* The task document after the remote call of the push loop: the sync info
\* is written after the call, inside the same try block.
TaskAfterPush(task, outcome, e, cal, now) ==
  IF outcome = "ok" THEN Linked(task, e, cal, now) ELSE task

\* One iteration of "for task in tasks_to_push".  Next to the outcomes of
\* the remote call there is "storeFails": the remote call returned and the
\* update_one that follows it raised, inside the same try block.
PushTask(outcome) ==
  /\ sync.pc = "push"
  /\ outcome \in CallOutcomes \cup {"storeFails"}
  /\ LET id == Head(sync.toPush).id
         doc == Head(sync.toPush).doc
         body == BuildGoogleCalendarEvent(doc)
         isUpdate == doc.googleEventId # NoEvent
         cal == IF isUpdate THEN doc.googleCalendarId ELSE sync.target
         e == IF isUpdate THEN doc.googleEventId ELSE nextEvent
         call == [kind |-> "push", task |-> id, doc |-> doc,
                  op |-> IF isUpdate THEN "update" ELSE "insert",
                  cal |-> cal, outcome |-> outcome, fresh |-> nextEvent,
                  remote |-> IF isUpdate /\ e \in EventIds
                             THEN events[e].updated ELSE NoTime]
     IN /\ (outcome # "raise" /\ isUpdate) => RemoteHas(sync.uid, cal, e)
        /\ hist' = [hist EXCEPT
             !.cyc.attempted = Append(@, id),
             !.cyc.failed = IF outcome = "ok" THEN @ ELSE Append(@, id),
             !.cyc.clean = @ /\ outcome = "ok",
             !.cyc.pushes = @ + 1,
             !.cyc.last = call]
        /\ tasks' = IF id \in TaskIds
                    THEN [tasks EXCEPT ![id] =
                            TaskAfterPush(@, outcome, e, sync.target, UtcNow)]
                    ELSE tasks
        /\ IF outcome # "raise"
           THEN /\ events' = (e :> RemoteEvent(sync.uid, cal, body, UtcNow)) @@ events
                /\ nextEvent' = IF isUpdate THEN nextEvent ELSE nextEvent + 1
                /\ sync' = IF outcome = "ok" THEN AfterPushSuccess(sync)
                           ELSE AfterPushFailure(sync)
           ELSE /\ sync' = AfterPushFailure(sync)
                /\ UNCHANGED <<events, nextEvent>>
  /\ UNCHANGED <<edits, clock, tzOffset, rem, fcall, sched, users, nextTask>>

\* return True, and the batch loop moves on.
SyncUserCalendarReturn ==
  /\ sync.pc = "ret"
  /\ sync' = AfterCycle(sync)
  /\ hist' = [hist EXCEPT !.cyc = [NoCycle EXCEPT
                             !.last = [kind |-> "return", user |-> sync.uid,
                                       pushed |-> sync.pushed, result |-> TRUE]],
                          !.quiet = [@ EXCEPT ![sync.uid] = hist.cyc.clean]]
  /\ UNCHANGED <<edits, clock, tzOffset, rem, fcall, sched, users, tasks, nextTask, events, nextEvent>>

(***************************************************************************)
(* Specification: the default deployment, where the store's coroutines     *)
(* never suspend and the remote calls block, so a batch runs without any   *)
(* request handler in between; only time passes.                           *)
(***************************************************************************)
Connected(u) == users[u].googleAccessToken # NoTok

\* Requests of u1 on tasks authored in NovaDo, and edits made in Google to
\* the events NovaDo pushed.
Environment ==
  \/ \E e \in EventIds : Connected("u1") /\ RemoteEdit(e)
  \/ \E due \in {NoDate} \cup EventStarts, linked \in BOOLEAN :
       Connected("u1") /\ CreateTask("u1", due, FALSE, linked)
  \/ \E t \in TaskIds, ch \in Changes, ok \in BOOLEAN :
       Connected("u1") /\ UpdateTask(t, ch, ok)
  \/ \E t \in TaskIds, cal \in Calendars, ok \in BOOLEAN :
       PushTaskToCalendar(t, cal, ok)

\* Requests of u1 on tasks that came from the calendar, and edits made in
\* Google.
EnvironmentRemote ==
  \/ \E e \in EventIds : Connected("u1") /\ RemoteEdit(e)
  \/ \E t \in TaskIds, ch \in Changes, ok \in BOOLEAN :
       Connected("u1") /\ UpdateTask(t, ch, ok)
  \/ \E bad \in SUBSET {"work"} : SyncCalendar("u1", bad)
  \/ \E e \in EventIds : Connected("u1") /\ RemoteDelete(e)

\* Requests that change what a user is connected to, next to the manual
\* push and the creation of a task: one without a due date, or one with a
\* due date whose immediate push succeeded.
EnvironmentSelect ==
  \/ \E u \in Users, newly \in Selections : SelectCalendars(u, newly)
  \/ \E u \in Users : DisconnectGoogle(u)
  \/ \E u \in Users, due \in EventStarts, linked \in BOOLEAN :
       CreateTask(u, IF linked THEN due ELSE NoDate, FALSE, linked)
  \/ \E t \in TaskIds, cal \in Calendars, ok \in BOOLEAN :
       PushTaskToCalendar(t, cal, ok)

Cycle ==
  \/ BatchStart
  \/ \E o \in {"valid", "refreshed", "none"} : SyncUserCalendarStart(o)
  \/ SyncUserCalendarRaises
  \/ \E o \in ListOutcomes : PullList(o)
  \/ PullEvent
  \/ PullMark
  \/ PushSelect
  \/ \E o \in CallOutcomes : PushTask(o)
  \/ SyncUserCalendarReturn

(***************************************************************************)
(* The on-demand trigger: POST /calendar/sync/bidirectional and            *)
(* trigger_sync_now(user).  fcall holds the request: the user, whether the *)
(* scheduler was running, the store and calendar as the request found      *)
(* them, and the result handed back ("pending" while the cycle runs,       *)
(* "error" when the cycle raised).                                         *)
(***************************************************************************)
\* Faulty variant: the caller is always told that the sync succeeded.
TriggerResultAlwaysTrue(last) == "True"

\* What trigger_sync_now returns: the value _sync_user_calendar returned,
\* unless it raised.
TriggerResult(last) ==
  IF last.kind = "cycleRaised" THEN "error"
  ELSE IF last.result THEN "True" ELSE "False"

\* The request of a connected user reaches trigger_sync_now: without a
\* running scheduler it returns False at once, else it enters
\* _sync_user_calendar with the user document of the request.
TriggerSyncNow(u) ==
  /\ Idle
  /\ IF fcall.fn = "none" THEN TRUE ELSE fcall.result # "pending"
  /\ users[u].googleAccessToken # NoTok
  /\ fcall' = [fn |-> "trigger_sync_now", user |-> u, running |-> sched.running,
               result |-> IF sched.running THEN "pending" ELSE "False",
               before |-> <<users, tasks, events>>, cycle |-> NoStep]
  /\ IF sched.running
     THEN /\ sync' = [IdleSync EXCEPT !.pc = "creds",
                                      !.queue = <<[id |-> u, doc |-> users[u]]>>]
          /\ hist' = [hist EXCEPT !.batch = <<u>>, !.ran = <<>>, !.revoked = {},
                                  !.raised = {}, !.atStart = users,
                                  !.cyc = NoCycle]
     ELSE UNCHANGED <<sync, hist>>
  /\ UNCHANGED <<clock, tzOffset, users, tasks, nextTask, events, nextEvent, edits,
                 sched, rem>>

\* _sync_user_calendar is over and trigger_sync_now returns.
TriggerReturn ==
  /\ Idle
  /\ fcall.fn = "trigger_sync_now"
  /\ fcall.result = "pending"
  /\ fcall' = [fcall EXCEPT !.result = TriggerResult(hist.cyc.last),
                            !.cycle = hist.cyc.last]
  /\ UNCHANGED <<clock, tzOffset, users, tasks, nextTask, events, nextEvent, edits,
                 sync, hist, sched, rem>>

\* The application before and after start().
InitTrigger ==
  /\ InitStore(<<Foreign("work")>>, TRUE)
  /\ sched \in {Constructed, Started(Constructed)}
  /\ rem = NoRem
  /\ fcall = NoCall

\* Requests for an immediate sync between the batches of the periodic loop.
NextTrigger ==
  \/ \E u \in Users : TriggerSyncNow(u)
  \/ TriggerReturn
  \/ /\ sched.running
     /\ IF fcall.fn = "none" THEN TRUE ELSE fcall.result # "pending"
     /\ BatchStart
  \/ \E o \in {"valid", "refreshed", "none"} : SyncUserCalendarStart(o)
  \/ SyncUserCalendarRaises
  \/ \E o \in ListOutcomes : PullList(o)
  \/ PullEvent
  \/ PullMark
  \/ PushSelect
  \/ \E o \in CallOutcomes : PushTask(o)
  \/ SyncUserCalendarReturn

(***************************************************************************)
(* Single calls.  fcall holds the last call: its arguments, what the       *)
(* libraries it calls did, and what it returned.                           *)
(*                                                                         *)
(* get_credentials_from_user(user).  expired is creds.expired, refresh the *)
(* outcome of creds.refresh(), loop what asyncio.get_event_loop() gave     *)
(* ("running", "idle" for a loop that is not running, "none" when it       *)
(* raised RuntimeError) and persist the outcome of the users.update_one    *)
(* that run_until_complete drives.                                         *)
(***************************************************************************)
\* Faulty variant: a failed refresh hands out the expired credentials.
GetCredentialsResultStale(doc, expired, refresh, loop, persist) ==
  IF doc.googleAccessToken = NoTok THEN "None"
  ELSE IF ~(expired /\ doc.googleRefreshToken # NoTok) THEN "creds"
  ELSE IF refresh = "fails" THEN "creds"
  ELSE IF loop = "idle" /\ persist = "storeError" THEN "None"
  ELSE "refreshed"

\* The value returned: None, the credentials built from the document, or
\* those credentials after refresh().  "except RuntimeError" covers the
\* store update, "except Exception" the refresh and everything after it.
GetCredentialsResult(doc, expired, refresh, loop, persist) ==
  IF doc.googleAccessToken = NoTok THEN "None"
  ELSE IF ~(expired /\ doc.googleRefreshToken # NoTok) THEN "creds"
  ELSE IF refresh = "fails" THEN "None"
  ELSE IF loop = "idle" /\ persist = "storeError" THEN "None"
  ELSE "refreshed"

\* The $set of the refreshed token.
WithRefreshedToken(doc) == [doc EXCEPT !.googleAccessToken = "at2"]

GetCredentialsFromUser(u, expired, refresh, loop, persist) ==
  LET doc == users[u]
      refreshed == /\ doc.googleAccessToken # NoTok
                   /\ expired
                   /\ doc.googleRefreshToken # NoTok
                   /\ refresh = "ok"
  IN /\ IF fcall.fn = "get_credentials_from_user" THEN ~fcall.detached ELSE TRUE
     /\ fcall' = [fn |-> "get_credentials_from_user", user |-> u, doc |-> doc,
                  expired |-> expired, refresh |-> refresh, loop |-> loop,
                  persist |-> persist, refreshed |-> refreshed,
                  detached |-> refreshed /\ loop = "running",
                  result |-> GetCredentialsResult(doc, expired, refresh, loop, persist),
                  before |-> users]
     /\ users' = IF refreshed /\ loop = "idle" /\ persist = "ok"
                 THEN [users EXCEPT ![u] = WithRefreshedToken(@)]
                 ELSE users
     /\ UNCHANGED <<clock, tzOffset, tasks, nextTask, events, nextEvent, edits,
                    sync, hist, sched, rem>>

\* The task made by asyncio.create_task runs the update_one.
PersistRefreshedToken(ok) ==
  /\ fcall.fn = "get_credentials_from_user"
  /\ fcall.detached
  /\ fcall' = [fcall EXCEPT !.detached = FALSE]
  /\ users' = IF ok THEN [users EXCEPT ![fcall.user] = WithRefreshedToken(@)]
                     ELSE users
  /\ UNCHANGED <<clock, tzOffset, tasks, nextTask, events, nextEvent, edits,
                 sync, hist, sched, rem>>

(***************************************************************************)
(* convert_event_time_to_user_tz(time_str, user_preferences).  Times are   *)
(* minutes on a short calendar of days of 1440 minutes.  A time string is  *)
(* its kind ("naive", "Z" or "offset"), the wall-clock value it spells and *)
(* its offset.  pytz knows "UTC" and "America/Denver"; Denver is at -420   *)
(* and, between the spring-forward instant of day 2 and the fall-back      *)
(* instant of day 4, at -360.                                              *)
(***************************************************************************)
\* utcoffset() of the zone at a UTC instant.
UtcOffset(zone, utc) ==
  IF zone = "America/Denver"
  THEN IF utc >= 2 * 1440 + 540 /\ utc < 4 * 1440 + 480 THEN -360 ELSE -420
  ELSE 0

\* Faulty variant: a naive time is read as UTC.
LocalizeAsUtc(zone, wall) == wall

\* user_tz.localize(naive_dt), with pytz's default is_dst=False, as a UTC
\* instant: the offset under which the zone shows this wall-clock time;
\* the standard one when two do; when none does (the hour a spring-forward
\* skips), the offset in force six hours earlier.
RECURSIVE Localize(_, _)
Localize(zone, wall) ==
  LET fits == {o \in {UtcOffset(zone, 0), UtcOffset(zone, 3 * 1440)} :
                 UtcOffset(zone, wall - o) = o}
  IN IF fits = {} THEN Localize(zone, wall - 360) + 360
     ELSE wall - (CHOOSE o \in fits : \A o2 \in fits : o <= o2)

\* The (date_only, "HH:MM") returned, as day number and minute of the day.
ConvertEventTimeToUserTz(str, name) ==
  LET zone == IF name \in {"UTC", "America/Denver"} THEN name ELSE "UTC"
      utc == IF str.kind = "naive" THEN Localize(zone, str.wall)
             ELSE str.wall - str.off
      local == utc + UtcOffset(zone, utc)
  IN [date |-> local \div 1440, time |-> local % 1440]

ConvertEventTime(str, name) ==
  /\ IF fcall.fn = "get_credentials_from_user" THEN ~fcall.detached ELSE TRUE
  /\ fcall' = [fn |-> "convert_event_time_to_user_tz", str |-> str, tz |-> name,
               result |-> ConvertEventTimeToUserTz(str, name)]
  /\ UNCHANGED <<clock, tzOffset, users, tasks, nextTask, events, nextEvent, edits,
                 sync, hist, sched, rem>>

(***************************************************************************)
(* PUT /banner/settings.  fcall holds the body of the request, the status  *)
(* of the response, the $set sent to users.update_one (<<>> when none is   *)
(* sent) and the focal point in the response (<<>> when there is none).    *)
(***************************************************************************)
\* Faulty variant: the request model accepts every integer.
BannerSettingsValidAny(v) == TRUE

\* Field(ge=0, le=100) of BannerSettingsUpdate.
BannerSettingsValid(v) == v >= 0 /\ v <= 100

\* A request that fails validation is answered 422 before the handler
\* runs; the handler clamps with max(0, min(100, v)), stores and returns.
UpdateBannerSettings(u, x, y) ==
  LET clamp(v) == IF v > 100 THEN 100 ELSE IF v < 0 THEN 0 ELSE v
      ok == BannerSettingsValid(x) /\ BannerSettingsValid(y)
      focal == IF ok THEN <<clamp(x), clamp(y)>> ELSE <<>>
  IN /\ IF fcall.fn = "get_credentials_from_user" THEN ~fcall.detached ELSE TRUE
     /\ fcall' = [fn |-> "update_banner_settings", user |-> u, x |-> x, y |-> y,
                  status |-> IF ok THEN 200 ELSE 422,
                  set |-> focal, returned |-> focal]
     /\ UNCHANGED <<clock, tzOffset, users, tasks, nextTask, events, nextEvent,
                    edits, sync, hist, sched, rem>>

\* A store with a connected user and a user that may never have connected.
InitCalls ==
  /\ \E connected \in BOOLEAN : InitStore(<<>>, connected)
  /\ sched = Started(Constructed)
  /\ rem = NoRem
  /\ fcall = NoCall

NextCalls ==
  \/ \E u \in Users, expired \in BOOLEAN, refresh \in {"ok", "fails"},
        loop \in {"running", "idle", "none"},
        persist \in {"ok", "storeError", "runtimeError"} :
       GetCredentialsFromUser(u, expired, refresh, loop, persist)
  \/ \E ok \in BOOLEAN : PersistRefreshedToken(ok)
  \/ \E day \in 1..4, minute \in {90, 150, 870, 1410},
        form \in {<<"naive", 0>>, <<"Z", 0>>, <<"offset", -420>>, <<"offset", 330>>},
        name \in {"UTC", "America/Denver", "Mars/Olympus"} :
       ConvertEventTime([kind |-> form[1], wall |-> day * 1440 + minute,
                         off |-> form[2]], name)
  \/ \E u \in Users, x, y \in {-1000, -1, 0, 50, 100, 101, 1000} :
       UpdateBannerSettings(u, x, y)

(***************************************************************************)
(* Reminders: _check_reminders and _send_reminder.  Times are in seconds.  *)
(* rem holds                                                               *)
(*   now      - datetime.utcnow() as the scan reads it                     *)
(*   docs     - the tasks in store order, with their reminder subdocument  *)
(*   subs     - the users with a document in db.push_subscriptions         *)
(*   vapid    - VAPID_PRIVATE_KEY is configured                            *)
(*   pc       - "sleep" between two scans, "send" inside the dispatch loop *)
(*   toNotify - tasks_to_notify still to dispatch                          *)
(*   scans    - the scans made so far                                      *)
(*   last     - what the last step did (observation only)                  *)
(***************************************************************************)
DaySeconds == 24 * 60 * 60
ScanBase == 2 * DaySeconds + 9 * 60 * 60

\* task_due: dueDate, with hour and minute replaced by dueTime when the task
\* has one (dueTime is in minutes of the day).
TaskDue(doc) ==
  IF doc.dueTime = NoTime THEN doc.dueDate
  ELSE (doc.dueDate \div DaySeconds) * DaySeconds + doc.dueTime * 60
         + (doc.dueDate % 60)

\* Faulty variant: the debounce on reminder.lastSent is left out.
NeedsReminderEveryScan(doc, now) ==
  /\ doc.enabled
  /\ doc.notifyDesktop
  /\ doc.dueDate # NoDate
  /\ LET reminderTime == TaskDue(doc) - doc.minutesBefore * 60
     IN now <= reminderTime /\ reminderTime <= now + ReminderWindow

\* The filter of the scan over one task document.
NeedsReminder(doc, now) ==
  /\ doc.enabled
  /\ doc.notifyDesktop
  /\ ~(doc.lastSent # NoTime /\ now - doc.lastSent < DebounceSeconds)
  /\ doc.dueDate # NoDate
  /\ LET reminderTime == TaskDue(doc) - doc.minutesBefore * 60
     IN now <= reminderTime /\ reminderTime <= now + ReminderWindow

\* The task documents a scan may meet: around both ends of the window and
\* of the debounce, with and without due date and dueTime.
ReminderDocs ==
  {[user |-> "u1", enabled |-> en, notifyDesktop |-> nd, lastSent |-> ls,
    dueDate |-> dd[1], dueTime |-> dd[2], minutesBefore |-> DefaultMinutesBefore] :
     en \in BOOLEAN, nd \in BOOLEAN,
     ls \in {NoTime, ScanBase - DebounceSeconds, ScanBase - DebounceSeconds + 1},
     dd \in {<<NoDate, NoTime>>}
            \cup {<<ScanBase + DefaultMinutesBefore * 60 + k, NoTime>> :
                    k \in {-1, 0, ReminderWindow, ReminderWindow + 1}}
            \cup {<<2 * DaySeconds, m>> : m \in {9 * 60 + 31, 9 * 60 + 32}}}

\* A task of another user that is due at every first scan.
DueDoc ==
  [user |-> "u2", enabled |-> TRUE, notifyDesktop |-> TRUE, lastSent |-> NoTime,
   dueDate |-> ScanBase + DefaultMinutesBefore * 60, dueTime |-> NoTime,
   minutesBefore |-> DefaultMinutesBefore]

InitReminder ==
  /\ InitStore(<<>>, FALSE)
  /\ sched = Started(Constructed)
  /\ fcall = NoCall
  /\ \E d \in ReminderDocs, subs \in SUBSET Users, vapid \in BOOLEAN :
       rem = [pc |-> "sleep", now |-> ScanBase, docs |-> <<d, DueDoc>>,
              subs |-> subs, vapid |-> vapid, toNotify |-> <<>>, scans |-> 0,
              last |-> NoStep]

\* _check_reminders up to the dispatch loop: tasks_to_notify in store order.
CheckReminders ==
  /\ rem.pc = "sleep"
  /\ rem.scans < MaxScans
  /\ LET due == {i \in DOMAIN rem.docs : NeedsReminder(rem.docs[i], rem.now)}
         found == SortedSeq(due)
     IN rem' = [rem EXCEPT !.toNotify = found,
                           !.pc = IF found = <<>> THEN "sleep" ELSE "send",
                           !.scans = @ + 1,
                           !.last = [kind |-> "scan", selected |-> due,
                                     docs |-> rem.docs, now |-> rem.now]]
  /\ UNCHANGED <<clock, tzOffset, users, tasks, nextTask, events, nextEvent, edits,
                 sync, hist, sched, fcall>>

\* What _send_push_notification does with the payload: nothing without a
\* VAPID key or without pywebpush, else webpush() returns or raises.
PushOutcomes(vapid) ==
  IF vapid THEN {"sent", "raised", "notInstalled"} ELSE {"noKey"}

\* The task after _send_push_notification: the update_one that stamps
\* reminder.lastSent follows the call inside the same try block, so it is
\* skipped only when the call raised.
Stamped(doc, outcome, now) ==
  IF outcome = "raised" THEN doc ELSE [doc EXCEPT !.lastSent = now]

\* _send_reminder for the next task of tasks_to_notify.
SendReminder(outcome) ==
  /\ rem.pc = "send"
  /\ LET i == Head(rem.toNotify)
         doc == rem.docs[i]
         subscribed == doc.user \in rem.subs
         rest == Tail(rem.toNotify)
     IN /\ outcome \in IF subscribed THEN PushOutcomes(rem.vapid) ELSE {"noSubscription"}
        /\ rem' = [rem EXCEPT
             !.docs[i] = IF subscribed THEN Stamped(doc, outcome, rem.now) ELSE doc,
             !.toNotify = rest,
             !.pc = IF rest = <<>> THEN "sleep" ELSE "send",
             !.last = [kind |-> "send", task |-> i, outcome |-> outcome,
                       handed |-> outcome = "sent", before |-> doc.lastSent]]
  /\ UNCHANGED <<clock, tzOffset, users, tasks, nextTask, events, nextEvent, edits,
                 sync, hist, sched, fcall>>

\* await asyncio.sleep(self.reminder_interval)
ReminderSleep ==
  /\ rem.pc = "sleep"
  /\ rem.scans > 0
  /\ rem.now < ScanBase + MaxScans * ReminderInterval
  /\ rem' = [rem EXCEPT !.now = @ + ReminderInterval, !.last = NoStep]
  /\ UNCHANGED <<clock, tzOffset, users, tasks, nextTask, events, nextEvent, edits,
                 sync, hist, sched, fcall>>

\* One round of _run_reminder_loop after its scan: the scan read utcnow()
\* when it began and took `took` seconds (the find() over all tasks and
\* the dispatches), and only then the sleep of reminder_interval starts.
ReminderSleepAfterScan(took) ==
  /\ rem.pc = "sleep"
  /\ rem.scans > 0
  /\ rem.now < ScanBase + MaxScans * ReminderInterval
  /\ rem' = [rem EXCEPT !.now = @ + took + ReminderInterval,
                        !.last = [kind |-> "slept", from |-> rem.now,
                                  took |-> took]]
  /\ UNCHANGED <<clock, tzOffset, users, tasks, nextTask, events, nextEvent, edits,
                 sync, hist, sched, fcall>>

NextReminder ==
  \/ CheckReminders
  \/ \E o \in {"sent", "raised", "notInstalled", "noKey", "noSubscription"} :
       SendReminder(o)
  \/ ReminderSleep

(***************************************************************************)
(* The scheduler's lifecycle: start(), stop() and the two loops, in a      *)
(* deployment whose store calls suspend (MongoDB through Motor), so that   *)
(* stop() may find a reminder check or a batch suspended at an await.      *)
(***************************************************************************)
\* start(), called once from the application's lifespan.
Start ==
  /\ ~sched.running
  /\ sched.stop = "no"
  /\ sched' = Started(sched)
  /\ UNCHANGED <<world, sync, hist>>

\* Faulty variant: stop() does not wait for the task.
AwaitedAtOnce(status) == TRUE

\* "await task" in stop(): stop() goes on when the task is done.
Awaited(status) == status = "done"

\* stop(): running = False, then task.cancel() and "await task" for the
\* reminder task.  cancel() on a task that is done requests nothing.
StopBegin ==
  /\ sched.running
  /\ sched.stop = "no"
  /\ sched' = [sched EXCEPT
       !.running = FALSE, !.stop = "reminder",
       !.pending = IF sched.reminder = "done" THEN @ ELSE @ \cup {"reminder"},
       !.inFlight = sync.pc # "idle"]
  /\ UNCHANGED <<world, sync, hist>>

\* stop(): the reminder task is done; task.cancel() and "await task" for
\* the sync task.
StopNext ==
  /\ sched.stop = "reminder"
  /\ Awaited(sched.reminder)
  /\ sched' = [sched EXCEPT
       !.stop = "sync",
       !.pending = IF sched.syncTask = "done" THEN @ ELSE @ \cup {"sync"}]
  /\ UNCHANGED <<world, sync, hist>>

\* stop(): the sync task is done; stop() returns.
StopReturn ==
  /\ sched.stop = "sync"
  /\ Awaited(sched.syncTask)
  /\ sched' = [sched EXCEPT !.stop = "returned", !.started = FALSE]
  /\ UNCHANGED <<world, sync, hist>>

\* CancelledError is thrown into the task where it is suspended.  At
\* asyncio.sleep, outside every try block, it ends the task.  Inside the
\* body it ends the task where CancelledError is a BaseException (Python
\* 3.8 and later), and it is caught by the nearest "except Exception"
\* where it is an Exception (Python 3.7): then the body goes on as after
\* any failed call.
CancelReminder(caught) ==
  /\ "reminder" \in sched.pending
  /\ caught => sched.reminder = "check"
  /\ sched' = [sched EXCEPT !.pending = @ \ {"reminder"},
                            !.reminder = IF caught THEN @ ELSE "done"]
  /\ UNCHANGED <<world, sync, hist>>

CancelSync(caught) ==
  /\ "sync" \in sched.pending
  /\ caught => sync.pc # "idle"
  /\ sched' = [sched EXCEPT !.pending = @ \ {"sync"},
                            !.syncTask = IF caught THEN @ ELSE "done"]
  /\ sync' = IF caught THEN sync ELSE IdleSync
  /\ UNCHANGED <<world, hist>>

\* The reminder task is resumed at the head of its loop: "while
\* self.running", then into _check_reminders.
ReminderWake ==
  /\ sched.reminder = "wait"
  /\ "reminder" \notin sched.pending
  /\ sched' = IF sched.running
              THEN [sched EXCEPT !.reminder = "check", !.checks = 1 - @]
              ELSE [sched EXCEPT !.reminder = "done"]
  /\ UNCHANGED <<world, sync, hist>>

\* Faulty variant: an exception of the check ends the reminder loop.
ReminderAfterCheckEnds(outcome) == IF outcome = "raised" THEN "done" ELSE "wait"

\* Where the reminder task stands after _check_reminders returned or
\* raised: "except Exception" logs, and the loop sleeps.
ReminderAfterCheck(outcome) == "wait"

\* _check_reminders returns or raises.
ReminderCheck(outcome) ==
  /\ sched.reminder = "check"
  /\ "reminder" \notin sched.pending
  /\ sched' = [sched EXCEPT !.reminder = ReminderAfterCheck(outcome),
                            !.lastCheck = outcome]
  /\ UNCHANGED <<world, sync, hist>>

\* The sync task may take a step: it is alive and no cancellation waits
\* for it.
SyncRuns == sched.syncTask = "alive" /\ "sync" \notin sched.pending

\* The sync task is resumed at the head of its loop and begins a batch over
\* the connected users.
LoopBatch ==
  /\ SyncRuns
  /\ sched.running
  /\ BatchBegin
  /\ sched' = [sched EXCEPT !.batches = 1 - @, !.lastBatch = "ok"]

\* The batch finds no connected user and returns.
LoopBatchEmpty ==
  /\ SyncRuns
  /\ sched.running
  /\ Idle
  /\ ConnectedUsers(UserOrder) = <<>>
  /\ sched' = [sched EXCEPT !.batches = 1 - @, !.lastBatch = "ok"]
  /\ UNCHANGED <<world, sync, hist>>

\* Where the sync task stands after a batch raised: "except Exception"
\* logs, and the loop sleeps.
SyncAfterBatchRaised(status) == status

\* The batch raises before its loop over the users (db.users.find fails).
LoopBatchRaises ==
  /\ SyncRuns
  /\ sched.running
  /\ Idle
  /\ sched' = [sched EXCEPT !.batches = 1 - @, !.lastBatch = "raised",
                            !.syncTask = SyncAfterBatchRaised(@)]
  /\ UNCHANGED <<world, sync, hist>>

\* The sync task is resumed at the head of its loop and finds running
\* False.
LoopExit ==
  /\ SyncRuns
  /\ ~sched.running
  /\ Idle
  /\ sched' = [sched EXCEPT !.syncTask = "done"]
  /\ UNCHANGED <<world, sync, hist>>

\* Faulty variant: start_scheduler() does not look at _scheduler_started.
StartSkippedNever(s) == FALSE

\* "if _scheduler_started: return" in start_scheduler().
StartSkipped(s) == s.started

\* start_scheduler(), at any moment.  start() creates the loop tasks unless
\* running is set; a task the scheduler held and that is not done goes on
\* unreferenced.
StartScheduler ==
  /\ LET made == ~StartSkipped(sched) /\ ~sched.running
         alive == {k \in {"reminder", "sync"} :
                     IF k = "reminder" THEN sched.reminder \in {"wait", "check"}
                     ELSE sched.syncTask = "alive"}
         call == [fn |-> "start_scheduler", wasStarted |-> sched.started,
                  acted |-> made]
     IN sched' = IF StartSkipped(sched) THEN [sched EXCEPT !.call = call]
                  ELSE IF sched.running
                  THEN [sched EXCEPT !.started = TRUE, !.call = call]
                  ELSE [Started(sched) EXCEPT
                          !.orphans = @ \cup alive,
                          !.stop = IF @ = "returned" THEN "no" ELSE @,
                          !.call = call]
  /\ UNCHANGED <<world, sync, hist>>

\* stop_scheduler(), when no stop() is under way: nothing unless
\* _scheduler_started, else stop() up to its first "await task".
StopScheduler ==
  /\ sched.stop \in {"no", "returned"}
  /\ LET call == [fn |-> "stop_scheduler", wasStarted |-> sched.started,
                  acted |-> sched.started]
     IN sched' = IF ~sched.started THEN [sched EXCEPT !.call = call]
                  ELSE [sched EXCEPT
                          !.running = FALSE, !.stop = "reminder",
                          !.pending = IF sched.reminder \in {"done", "none"}
                                      THEN @ ELSE @ \cup {"reminder"},
                          !.inFlight = sync.pc # "idle",
                          !.call = call]
  /\ UNCHANGED <<world, sync, hist>>

\* The steps of the sync loop task.  The token write that
\* get_credentials_from_user hands to a task of its own after a refresh is
\* a step of neither loop and is left out.
SyncLoop ==
  \/ LoopBatch
  \/ LoopBatchEmpty
  \/ LoopBatchRaises
  \/ LoopExit
  \/ \E o \in {"valid", "refreshed", "none"} : SyncRuns /\ SyncUserCalendarStart(o)
  \/ SyncRuns /\ SyncUserCalendarRaises
  \/ \E o \in ListOutcomes : SyncRuns /\ PullList(o)
  \/ SyncRuns /\ PullEvent
  \/ SyncRuns /\ PullMark
  \/ SyncRuns /\ PushSelect
  \/ \E o \in CallOutcomes : SyncRuns /\ PushTask(o)
  \/ SyncRuns /\ SyncUserCalendarReturn

\* The steps of the reminder loop task.
ReminderLoop ==
  \/ ReminderWake
  \/ \E o \in {"ok", "raised"} : ReminderCheck(o)

\* start(), stop() and the delivery of the cancellations stop() requests.
Lifecycle ==
  \/ Start
  \/ StopBegin
  \/ StopNext
  \/ StopReturn
  \/ \E caught \in BOOLEAN : CancelReminder(caught)
  \/ \E caught \in BOOLEAN : CancelSync(caught)

NextLoop == Lifecycle \/ ReminderLoop \/ SyncLoop

\* Any sequence of start_scheduler() and stop_scheduler() calls around the
\* two loops.
NextStartStop ==
  \/ StartScheduler
  \/ StopScheduler
  \/ StopNext
  \/ StopReturn
  \/ \E caught \in BOOLEAN : CancelReminder(caught)
  \/ \E caught \in BOOLEAN : CancelSync(caught)
  \/ ReminderLoop
  \/ SyncLoop

(***************************************************************************)
(* The remote calls of a cycle, taken apart into the request and its       *)
(* answer.  creds.refresh() and the execute() of a list, insert or update  *)
(* are plain calls, not awaits: the coroutine of the cycle keeps the       *)
(* thread of the event loop until the answer is there.  fcall holds the    *)
(* call and the position of the cycle that made it.                        *)
(***************************************************************************)
\* The cycle is inside refresh() or execute(): the event loop resumes no
\* coroutine before the call is over.
Waiting == fcall.fn = "execute"

\* The call the cycle made at this position is over.
Answered == fcall.fn = "answered" /\ fcall.at = sync

\* The cycle enters refresh() or execute().
RemoteCallBegin ==
  /\ sync.pc \in {"creds", "list", "push"}
  /\ ~Waiting
  /\ ~Answered
  /\ fcall' = [fn |-> "execute", at |-> sync]
  /\ UNCHANGED <<clock, tzOffset, users, tasks, nextTask, events, nextEvent, edits,
                 sync, hist, sched, rem>>

\* The answer arrives, or the call times out.
RemoteCallReturn ==
  /\ Waiting
  /\ fcall' = [fcall EXCEPT !.fn = "answered"]
  /\ UNCHANGED <<clock, tzOffset, users, tasks, nextTask, events, nextEvent, edits,
                 sync, hist, sched, rem>>

\* The cycle with every remote call waited for, and next to it the
\* reminder loop and a request handler.
NextBlocking ==
  \/ RemoteCallBegin
  \/ RemoteCallReturn
  \/ ~Waiting /\ BatchStart
  \/ ~Waiting /\ SyncUserCalendarStart("valid")
  \/ \E o \in {"refreshed", "none"} : Answered /\ SyncUserCalendarStart(o)
  \/ \E o \in ListOutcomes : Answered /\ PullList(o)
  \/ ~Waiting /\ PullEvent
  \/ ~Waiting /\ PullMark
  \/ ~Waiting /\ PushSelect
  \/ \E o \in CallOutcomes : Answered /\ PushTask(o)
  \/ ~Waiting /\ SyncUserCalendarReturn
  \/ ~Waiting /\ ReminderWake
  \/ \E o \in {"ok", "raised"} : ~Waiting /\ ReminderCheck(o)
  \/ ~Waiting /\ CreateTask("u1", ClockBase + Day, FALSE, FALSE)

Next == Tick \/ Environment \/ Cycle
NextRemote == Tick \/ EnvironmentRemote \/ Cycle

\* A batch during which the credentials are valid and every remote call
\* returns.
CycleOk ==
  \/ BatchStart
  \/ SyncUserCalendarStart("valid")
  \/ PullList("ok")
  \/ PullEvent
  \/ PullMark
  \/ PushSelect
  \/ PushTask("ok")
  \/ SyncUserCalendarReturn

NextBatch == Tick \/ Cycle
NextSelect == EnvironmentSelect \/ CycleOk

Spec == Init /\ [][Next]_vars
SpecRemote == InitRemote /\ [][NextRemote]_vars
SpecBatch == InitBatch /\ [][NextBatch]_vars
SpecSelect == InitSelect /\ [][NextSelect]_vars
SpecLoop == InitLoop /\ [][NextLoop]_vars
SpecReminder == InitReminder /\ [][NextReminder]_vars

\* The reminder loop with scans that take zero to two seconds.
SpecReminderLoop ==
  /\ InitReminder
  /\ [][\/ CheckReminders
        \/ \E o \in {"sent", "raised", "notInstalled", "noKey", "noSubscription"} :
             SendReminder(o)
        \/ \E took \in 0 .. 2 : ReminderSleepAfterScan(took)]_vars

SpecTrigger == InitTrigger /\ [][NextTrigger]_vars
SpecCalls == InitCalls /\ [][NextCalls]_vars
SpecStartStop == InitLoop /\ [][NextStartStop]_vars
SpecBlocking == InitRemote /\ [][NextBlocking]_vars
SpecMalformed == InitMalformed /\ [][NextBatch]_vars

(***************************************************************************)
(* A second _sync_user_calendar coroutine, entered by trigger_sync_now     *)
(* while the batch loop may be inside its own cycle.  With MongoDB (Motor) *)
(* every awaited store operation is a suspension point, so each step below *)
(* is one store operation together with the blocking remote call, if any,  *)
(* that precedes it.  Its position is kept in fcall.                       *)
(***************************************************************************)
\* trigger_sync_now(user) with a running scheduler and a user document that
\* holds valid credentials: the window is computed, the pull phase begins.
ConcurrentStart(u) ==
  /\ fcall = NoCall
  /\ sched.running
  /\ users[u].googleAccessToken # NoTok
  /\ fcall' = [fn |-> "sync_user_calendar", pc |-> "list", user |-> u,
               selected |-> SelectedCalendars(users[u]),
               cals |-> SelectedCalendars(users[u]),
               tmin |-> TimeMin(users[u], UtcNow), tmax |-> TimeMax(UtcNow),
               cal |-> NoCal, evs |-> <<>>, found |-> 0, existing |-> NoStep,
               toPush |-> <<>>, last |-> NoStep]
  /\ UNCHANGED <<clock, tzOffset, users, tasks, nextTask, events, nextEvent, edits,
                 sync, hist, sched, rem>>

\* _pull_from_google of that coroutine: events().list and the first
\* find_one ("list", "find"), insert_one or update_one ("store"), and the
\* update_one of lastCalendarSync ("mark").
ConcurrentPull ==
  /\ fcall.fn = "sync_user_calendar"
  /\ fcall.pc \in {"list", "find", "store", "mark"}
  /\ LET u == fcall.user
         nextCal == [fcall EXCEPT !.cals = Tail(@), !.evs = <<>>,
                       !.pc = IF Len(fcall.cals) > 1 THEN "list" ELSE "mark"]
         nextEv == IF Len(fcall.evs) > 1
                   THEN [fcall EXCEPT !.evs = Tail(@), !.pc = "find"]
                   ELSE nextCal
     IN CASE fcall.pc = "list" ->
               LET cal == Head(fcall.cals)
                   listing == EventsList(u, cal, fcall.tmin, fcall.tmax)
               IN /\ fcall' = IF listing = <<>> THEN nextCal
                               ELSE [fcall EXCEPT !.pc = "find", !.cal = cal,
                                                  !.evs = listing]
                  /\ UNCHANGED <<clock, users, tasks, nextTask>>
          [] fcall.pc = "find" ->
               LET t == FindByEvent(u, Head(fcall.evs).id)
               IN /\ fcall' = [fcall EXCEPT !.pc = "store", !.found = t,
                                  !.existing = IF t = 0 THEN NoStep ELSE tasks[t]]
                  /\ UNCHANGED <<clock, users, tasks, nextTask>>
          [] fcall.pc = "store" ->
               LET e == Head(fcall.evs).id
                   ev == Head(fcall.evs).ev
               IN IF fcall.found # 0
                  THEN /\ tasks' =
                            IF /\ RemoteIsNewer(ev.updated, fcall.existing.updatedAt)
                               /\ fcall.found \in TaskIds
                            THEN [tasks EXCEPT ![fcall.found] = Overwrite(@, ev, UtcNow)]
                            ELSE tasks
                       /\ fcall' = [nextEv EXCEPT
                            !.last = [kind |-> "existing", task |-> fcall.found]]
                       /\ UNCHANGED <<clock, users, nextTask>>
                  ELSE \E t2 \in Later(clock) :
                       /\ tasks' = (nextTask :>
                            PulledTask(u, e, fcall.cal, ev, clock, t2)) @@ tasks
                       /\ nextTask' = nextTask + 1
                       /\ clock' = t2
                       /\ fcall' = [nextEv EXCEPT
                            !.last = [kind |-> "create", task |-> nextTask,
                                      event |-> e,
                                      stored |-> FindByEvent(u, e)]]
                       /\ UNCHANGED users
          [] fcall.pc = "mark" ->
               /\ users' = [users EXCEPT ![u].lastCalendarSync = UtcNow]
               /\ fcall' = [fcall EXCEPT !.pc = "select"]
               /\ UNCHANGED <<clock, tasks, nextTask>>
  /\ UNCHANGED <<tzOffset, events, nextEvent, edits, sync, hist, sched, rem>>

\* _push_to_google of that coroutine: the find() of the candidates
\* ("select"), events().insert / update followed by the update_one of the
\* sync info ("push", every call returning), and the return.
ConcurrentPush ==
  /\ fcall.fn = "sync_user_calendar"
  /\ fcall.pc \in {"select", "push", "ret"}
  /\ LET u == fcall.user
     IN CASE fcall.pc = "select" ->
               /\ fcall' = [fcall EXCEPT !.toPush = TasksToPush(u),
                              !.pc = IF TasksToPush(u) = <<>> THEN "ret" ELSE "push"]
               /\ UNCHANGED <<tasks, events, nextEvent>>
          [] fcall.pc = "push" ->
               LET id == Head(fcall.toPush).id
                   doc == Head(fcall.toPush).doc
                   isUpdate == doc.googleEventId # NoEvent
                   target == TargetCalendar(fcall.selected)
                   cal == IF isUpdate THEN doc.googleCalendarId ELSE target
                   e == IF isUpdate THEN doc.googleEventId ELSE nextEvent
               IN /\ isUpdate => RemoteHas(u, cal, e)
                  /\ events' = (e :> RemoteEvent(u, cal,
                                   BuildGoogleCalendarEvent(doc), UtcNow)) @@ events
                  /\ nextEvent' = IF isUpdate THEN nextEvent ELSE nextEvent + 1
                  /\ tasks' = IF id \in TaskIds
                              THEN [tasks EXCEPT ![id] =
                                      TaskAfterPush(@, "ok", e, target, UtcNow)]
                              ELSE tasks
                  /\ fcall' = [fcall EXCEPT
                       !.toPush = Tail(@),
                       !.pc = IF Len(fcall.toPush) > 1 THEN "push" ELSE "ret",
                       !.last = [kind |-> "push", task |-> id,
                                 op |-> IF isUpdate THEN "update" ELSE "insert",
                                 stored |-> IF id \in TaskIds
                                            THEN tasks[id].googleEventId
                                            ELSE NoEvent]]
          [] fcall.pc = "ret" ->
               /\ fcall' = NoCall
               /\ UNCHANGED <<tasks, events, nextEvent>>
  /\ UNCHANGED <<clock, tzOffset, users, nextTask, edits, sync, hist, sched, rem>>

\* The batch loop and an on-demand trigger of u1, both with valid
\* credentials and returning remote calls, over a calendar that holds one
\* event made elsewhere; u1 adds one task between batches.
SpecConcurrent ==
  /\ InitRemote
  /\ [][\/ Tick
        \/ edits = 0 /\ CreateTask("u1", ClockBase + Day, FALSE, FALSE)
        \/ CycleOk
        \/ ConcurrentStart("u1")
        \/ ConcurrentPull
        \/ ConcurrentPush]_vars

\* POST /calendar/disconnect served at a suspension point of a cycle of the
\* batch loop (MongoDB deployment): the same writes as DisconnectGoogle,
\* and fcall keeps the completed request.
DisconnectDuringCycle(u) ==
  /\ ~Idle
  /\ fcall = NoCall
  /\ users[u].googleAccessToken # NoTok
  /\ tasks' = TasksAfterDisconnect(tasks, u)
  /\ users' = [users EXCEPT ![u] = UserDoc(NoTok, NoTok, NoSel, NoTime)]
  /\ fcall' = [fn |-> "disconnect_google", user |-> u, at |-> sync.pc,
               eventsDeleted |-> Cardinality(DOMAIN tasks \ DOMAIN tasks')]
  /\ hist' = [hist EXCEPT !.quiet = [x \in Users |-> FALSE]]
  /\ UNCHANGED <<clock, tzOffset, rem, sched, nextTask, events, nextEvent, sync,
                 edits>>

\* Batches of the sync loop over a calendar that holds one event made
\* elsewhere; u1 adds one task, and disconnects while a batch is running.
SpecDisconnect ==
  /\ InitRemote
  /\ [][\/ Tick
        \/ edits = 0 /\ CreateTask("u1", ClockBase + Day, FALSE, FALSE)
        \/ Cycle
        \/ DisconnectDuringCycle("u1")]_vars

\* One task authored in NovaDo, and a store whose update_one may fail after
\* the remote call of the push phase returned.
SpecStoreFails ==
  /\ Init
  /\ [][\/ Tick
        \/ nextTask = 1 /\ CreateTask("u1", ClockBase + Day, FALSE, FALSE)
        \/ \E t \in TaskIds, ch \in Changes : UpdateTask(t, ch, FALSE)
        \/ Cycle
        \/ nextEvent <= MaxStoreFailures /\ PushTask("storeFails")]_vars

\* Imports on request between successful batches of the sync loop.
SpecImport ==
  /\ InitSelect
  /\ [][\/ \E u \in Users, cal \in Calendars : ImportCalendar(u, cal, 30, 90)
        \/ CycleOk]_vars

\* The event loop resumes a task whose sleep is over or whose awaited call
\* has answered, and every sleep and every call ends.
SpecLoopFair ==
  /\ SpecLoop
  /\ WF_vars(ReminderLoop)
  /\ WF_vars(SyncLoop)

(***************************************************************************)
(* Properties of the sync engine.                                          *)
(***************************************************************************)
\* C1: in the push phase a remote insert or update is attempted for a task
\* if and only if syncToCalendar is true, dueDate is present, the status is
\* not completed/deleted/skipped, and the task is unlinked or its updatedAt
\* is strictly later than its lastSyncedAt; no call is made for any other
\* task of the user.  While the loop runs only such tasks have been
\* attempted; when it is over all of them have.
C1_PushIffCandidate ==
  LET snap == hist.cyc.snap
      should(task) ==
        /\ task.syncToCalendar
        /\ task.dueDate # NoDate
        /\ task.status \notin {"completed", "deleted", "skipped"}
        /\ \/ task.googleEventId = NoEvent
           \/ /\ task.updatedAt # NoTime
              /\ task.lastSyncedAt # NoTime
              /\ task.updatedAt > task.lastSyncedAt
      wanted == {t \in DOMAIN snap : should(snap[t])}
  IN /\ sync.pc = "push" => Range(hist.cyc.attempted) \subseteq wanted
     /\ sync.pc = "ret" => Range(hist.cyc.attempted) = wanted

\* A push phase is over in which one task was attempted and another task of
\* the user was not.
C1_Witness ==
  /\ sync.pc = "ret"
  /\ \E a, b \in DOMAIN hist.cyc.snap :
       /\ a \in Range(hist.cyc.attempted)
       /\ b \notin Range(hist.cyc.attempted)

\* C2: a cycle that runs right after a cycle of the same user that met no
\* failure, with no local or remote mutation in between, and that meets no
\* failure itself, attempts no remote insert or update and creates or
\* overwrites no local task.
C2_SecondRunIsIdle ==
  (hist.cyc.second /\ hist.cyc.clean) =>
    hist.cyc.pushes = 0 /\ hist.cyc.pulls = 0

\* C3: in the pull phase an existing task matched by (user, googleEventId)
\* gets title, description, dueDate and dueTime of the remote event and
\* lastSyncedAt = now if and only if the event's last-modified timestamp is
\* strictly later than the task's updatedAt; otherwise the task document is
\* left exactly as it was.
C3_PullOverwriteIffRemoteNewer ==
  LET l == hist.cyc.last
  IN /\ l.kind = "overwrite" =>
          /\ l.ev.updated > l.before.updatedAt
          /\ tasks[l.task] = [l.before EXCEPT
                                !.title = l.ev.summary,
                                !.description = l.ev.description,
                                !.dueDate = l.ev.start,
                                !.dueTime = l.ev.time,
                                !.lastSyncedAt = l.at]
     /\ l.kind = "keep" =>
          /\ l.ev.updated <= l.before.updatedAt
          /\ tasks[l.task] = l.before

\* The pull phase met a linked task whose updatedAt equals the event's
\* last-modified timestamp and left it alone.
C3_Witness ==
  /\ hist.cyc.last.kind = "keep"
  /\ hist.cyc.last.ev.updated = hist.cyc.last.before.updatedAt

\* C4: for a linked task whose updatedAt equals the remote event's
\* last-modified timestamp exactly, a cycle (here: one in which no call has
\* failed) neither overwrites the task in the pull phase nor pushes it.
C4_TieNeitherPullNorPush ==
  LET l == hist.cyc.last
  IN /\ l.kind = "overwrite" => l.ev.updated # l.before.updatedAt
     /\ (l.kind = "push" /\ l.remote # NoTime /\ hist.cyc.clean) =>
          l.remote # l.doc.updatedAt

\* C5: a linked task without lastSyncedAt that has syncToCalendar, a dueDate
\* and a live status is among the tasks the push phase selects (here: in a
\* cycle whose pull phase met no failure).
C5_LinkedWithoutLastSyncedIsPushed ==
  (sync.pc \in {"push", "ret"} /\ hist.cyc.errored = {} /\ hist.cyc.revokedAt = 0) =>
    \A t \in DOMAIN hist.cyc.snap :
      LET task == hist.cyc.snap[t]
      IN (/\ task.syncToCalendar
          /\ task.dueDate # NoDate
          /\ task.status \notin Terminal
          /\ task.googleEventId # NoEvent
          /\ task.lastSyncedAt = NoTime)
         => t \in Range(hist.cyc.candidates)

\* C6: when credential resolution returns None for a user who had a stored
\* access token, the cycle clears the access token, the refresh token, the
\* calendar selection and the lastCalendarSync watermark, and returns False.
C6_CredsNoneClearsAllLinkedFields ==
  LET l == hist.cyc.last
  IN (l.kind = "credsNone" /\ l.before.googleAccessToken # NoTok) =>
       /\ l.result = FALSE
       /\ users[l.user].googleAccessToken = NoTok
       /\ users[l.user].googleRefreshToken = NoTok
       /\ users[l.user].googleSelectedCalendars = NoSel
       /\ users[l.user].lastCalendarSync = NoTime

\* C7: once the listing of a calendar has failed with an authentication
\* error the user's stored tokens are cleared and no further calendar of
\* that user is listed in the cycle; and when the batch is over the cycle
\* of every user of the batch has been entered.
C7_RevocationStopsUserNotBatch ==
  /\ hist.cyc.revokedAt # 0 =>
       /\ users[sync.uid].googleAccessToken = NoTok
       /\ users[sync.uid].googleRefreshToken = NoTok
       /\ Len(hist.cyc.listed) = hist.cyc.revokedAt
       /\ sync.pc \notin {"list", "event"}
  /\ Idle => hist.ran = hist.batch

\* A batch is over in which the first user's first calendar met a
\* revocation and the second user's cycle was entered after it.
C7_Witness ==
  /\ Idle
  /\ "u1" \in hist.revoked
  /\ hist.ran = <<"u1", "u2">>
  /\ Len(SelectedCalendars(users["u2"])) = 1
  /\ users["u1"].googleAccessToken = NoTok
  /\ users["u1"].lastCalendarSync = NoTime

\* C8: when the pull phase is over, however it ended, the watermark
\* lastCalendarSync has just been set to the current time.
C8_WatermarkSetAfterEveryPull ==
  sync.pc = "select" =>
    /\ hist.cyc.last.kind = "mark"
    /\ users[sync.uid].lastCalendarSync = hist.cyc.last.at
    /\ users[sync.uid].lastCalendarSync # NoTime

\* C9: a non-authentication error while listing a calendar leaves the loop
\* on the next selected calendar; if no revocation follows, every selected
\* calendar has been listed when the pull phase ends, and the cycle returns
\* only through the push phase.
C9_CalendarErrorIsConfined ==
  LET l == hist.cyc.last
      n == Len(hist.cyc.listed)
  IN /\ (l.kind = "list" /\ l.outcome = "error") =>
          \/ /\ sync.pc = "list"
             /\ sync.cals = SubSeq(sync.selected, n + 1, Len(sync.selected))
          \/ /\ sync.pc = "mark"
             /\ hist.cyc.listed = sync.selected
     /\ (/\ hist.cyc.errored # {}
         /\ hist.cyc.revokedAt = 0
         /\ sync.pc \in {"mark", "select", "push", "ret"}) =>
          hist.cyc.listed = sync.selected
     /\ (hist.cyc.errored # {} /\ sync.pc = "ret") =>
          /\ l.kind \in {"select", "push"}
          /\ DOMAIN hist.cyc.snap = TasksOf(sync.uid)

\* The first of two selected calendars failed, the second was listed, and
\* the push phase pushed a task.
C9_Witness ==
  /\ sync.pc = "ret"
  /\ hist.cyc.errored = {"primary"}
  /\ hist.cyc.listed = <<"primary", "work">>
  /\ hist.cyc.last.kind = "push"
  /\ hist.cyc.last.outcome = "ok"

\* C10: the push loop attempts the candidates one after the other whatever
\* the earlier calls did, and the success count is the number of attempted
\* candidates minus those whose call raised: N - 1 for one failure among N.
C10_PushFailureIsIsolated ==
  LET c == hist.cyc.candidates
      a == hist.cyc.attempted
      f == hist.cyc.failed
  IN /\ sync.pc \in {"push", "ret"} =>
          /\ Len(a) <= Len(c)
          /\ a = SubSeq(c, 1, Len(a))
          /\ sync.pushed = Len(a) - Len(f)
     /\ sync.pc = "push" => Len(a) < Len(c)
     /\ sync.pc = "ret" =>
          /\ a = c
          /\ Len(f) = 1 => sync.pushed = Len(c) - 1

\* Of two candidates the first raised, the second was still attempted and
\* succeeded, and one push was counted.
C10_Witness ==
  /\ sync.pc = "ret"
  /\ Len(hist.cyc.candidates) = 2
  /\ hist.cyc.attempted = hist.cyc.candidates
  /\ hist.cyc.failed = <<hist.cyc.candidates[1]>>
  /\ sync.pushed = 1
  /\ tasks[hist.cyc.candidates[2]].googleEventId # NoEvent
  /\ tasks[hist.cyc.candidates[1]].googleEventId = NoEvent

C12_NoSpeculativeSyncInfo ==
  [][sync.pc # "idle" =>
       \A t \in DOMAIN tasks' :
         LET l == hist'.cyc.last
             info(d) == <<d.lastSyncedAt, d.googleEventId, d.googleCalendarId,
                          d.syncedWithGoogle>>
         IN (t \notin DOMAIN tasks \/ info(tasks'[t]) # info(tasks[t])) =>
              \/ l.kind \in {"overwrite", "create"} /\ l.task = t
              \/ l.kind = "push" /\ l.outcome = "ok" /\ l.task = t]_vars

\* The remote update of a linked, locally newer task raised, and the task
\* still carries its old lastSyncedAt.
C12_Witness ==
  /\ hist.cyc.last.kind = "push"
  /\ hist.cyc.last.outcome = "raise"
  /\ hist.cyc.last.doc.googleEventId # NoEvent
  /\ tasks[hist.cyc.last.task].lastSyncedAt = hist.cyc.last.doc.lastSyncedAt
  /\ tasks[hist.cyc.last.task].lastSyncedAt < tasks[hist.cyc.last.task].updatedAt

\* C13: in every reachable state, whatever pulls, pushes, task creations,
\* manual pushes, deselections and disconnects led to it, every task with a
\* non-null googleEventId also has a non-null googleCalendarId.
C13_EventIdImpliesCalendarId ==
  \A t \in TaskIds :
    tasks[t].googleEventId # NoEvent => tasks[t].googleCalendarId # NoCal

\* A calendar was deselected and a task of the same user is still linked to
\* an event.
C13_Witness ==
  /\ hist.cyc.last.kind = "select_calendars"
  /\ DOMAIN hist.cyc.last.before # TaskIds
  /\ \E t \in TaskIds : /\ tasks[t].user = hist.cyc.last.user
                        /\ tasks[t].googleEventId # NoEvent

\* C14: every successful push or pull that sets a task's googleEventId also
\* sets syncedWithGoogle = true and lastSyncedAt in the same write, in the
\* scheduler cycle and in the calendar routes that pull or import events:
\* in every reachable state a task with a non-null googleEventId has
\* syncedWithGoogle = true and a non-null lastSyncedAt.
C14_LinkedHasSyncInfo ==
  \A t \in TaskIds :
    tasks[t].googleEventId # NoEvent =>
      tasks[t].syncedWithGoogle /\ tasks[t].lastSyncedAt # NoTime

\* C15: the per-user sync cycle never deletes a local task.  No step of a
\* cycle removes a task or hands it to another user, whatever the listing
\* returns, so the user's task ids after the cycle are a superset of those
\* before it, also when an event that existed before is no longer listed.
C15_CycleNeverDeletesTask ==
  [][(sync.pc # "idle" \/ sync'.pc # "idle") =>
       \A t \in DOMAIN tasks :
         t \in DOMAIN tasks' /\ tasks'[t].user = tasks[t].user]_vars

\* The pull phase of a cycle without failure is over, the calendar of a
\* linked task was listed, the event of the task is gone from Google, and
\* the task is still stored.
C15_Witness ==
  /\ sync.pc \in {"select", "push", "ret"}
  /\ hist.cyc.clean
  /\ \E t \in TasksOf(sync.uid) :
       /\ tasks[t].googleEventId # NoEvent
       /\ tasks[t].googleEventId \notin EventIds
       /\ tasks[t].googleCalendarId \in Range(hist.cyc.listed)

\* C16: when a user deselects calendar B while keeping calendar A, exactly
\* the user's tasks whose googleCalendarId is B are deleted; the tasks linked
\* to A, the tasks without calendar link and the tasks of other users are
\* left as they were, and the stored selection is the new list.
C16_DeselectDeletesExactly ==
  LET l == hist.cyc.last
  IN l.kind = "select_calendars" =>
       LET B == {c \in Calendars : /\ \E i \in DOMAIN l.previously : l.previously[i] = c
                                   /\ \A i \in DOMAIN l.newly : l.newly[i] # c}
           gone(t) == l.before[t].user = l.user /\ l.before[t].googleCalendarId \in B
       IN /\ TaskIds = {t \in DOMAIN l.before : ~gone(t)}
          /\ \A t \in TaskIds : tasks[t] = l.before[t]
          /\ users[l.user].googleSelectedCalendars = l.newly

\* u1 had both calendars selected and keeps one: a task of the other
\* calendar is gone, while a task of the kept calendar, a task never linked
\* and a task of u2 on the deselected calendar are all still stored.
C16_Witness ==
  LET l == hist.cyc.last
  IN /\ l.kind = "select_calendars"
     /\ l.previously = <<"primary", "work">>
     /\ Len(l.newly) = 1
     /\ \E b \in Calendars :
          /\ b # l.newly[1]
          /\ \E t \in DOMAIN l.before \ TaskIds : l.before[t].googleCalendarId = b
          /\ \E t \in TaskIds : /\ tasks[t].user = l.user
                                /\ tasks[t].googleCalendarId = l.newly[1]
          /\ \E t \in TaskIds : /\ tasks[t].user = l.user
                                /\ tasks[t].googleCalendarId = NoCal
          /\ \E t \in TaskIds : /\ tasks[t].user # l.user
                                /\ tasks[t].googleCalendarId = b

\* C17: after a user fully disconnects their account, every local task of
\* that user that was linked to a calendar is deleted outright (not
\* unlinked), the tasks never linked and the tasks of other users are kept
\* as they were, and the user's access token, refresh token, calendar
\* selection and lastCalendarSync are all null.
C17_DisconnectDeletesLinkedTasks ==
  LET l == hist.cyc.last
  IN l.kind = "disconnect_google" =>
       LET wasLinked(t) == \/ l.before[t].googleEventId # NoEvent
                           \/ l.before[t].googleCalendarId # NoCal
       IN /\ TaskIds = {t \in DOMAIN l.before :
                          ~(l.before[t].user = l.user /\ wasLinked(t))}
          /\ \A t \in TaskIds : tasks[t] = l.before[t]
          /\ users[l.user].googleAccessToken = NoTok
          /\ users[l.user].googleRefreshToken = NoTok
          /\ users[l.user].googleSelectedCalendars = NoSel
          /\ users[l.user].lastCalendarSync = NoTime

\* A user who had synced before disconnects: a linked task is gone and a
\* task never linked is still stored.
C17_Witness ==
  LET l == hist.cyc.last
  IN /\ l.kind = "disconnect_google"
     /\ \E t \in DOMAIN l.before \ TaskIds : l.before[t].googleEventId # NoEvent
     /\ \E t \in TaskIds : /\ tasks[t].user = l.user
                           /\ tasks[t].googleEventId = NoEvent

\* C19: one periodic batch runs the per-user cycle exactly once for every
\* user whose stored access token is non-null when the batch starts and for
\* no other user, one user after another in the order of the store: the
\* users whose cycle was entered are always a prefix of them, and all of
\* them when the batch is over, also when a cycle raised an exception.
C19_BatchRunsEveryConnectedUser ==
  LET hasToken(u) == hist.atStart[u].googleAccessToken # NoTok
      expected == SelectSeq(UserOrder, hasToken)
      entered == Len(hist.ran)
  IN hist.batch # <<>> =>
       /\ hist.batch = expected
       /\ entered <= Len(expected)
       /\ hist.ran = SubSeq(expected, 1, entered)
       /\ sync.pc = "idle" => hist.ran = expected
       /\ sync.pc = "creds" => entered + Len(sync.queue) = Len(expected)
       /\ sync.pc \notin {"idle", "creds"} =>
            /\ entered + Len(sync.queue) = Len(expected) + 1
            /\ hist.ran[entered] = sync.uid

\* A batch over two connected users is over: the cycle of the first raised
\* and the cycle of the second ran all the same.
C19_Witness ==
  /\ sync.pc = "idle"
  /\ hist.batch = <<"u1", "u2">>
  /\ hist.ran = <<"u1", "u2">>
  /\ "u1" \in hist.raised
  /\ hist.cyc.last.kind = "return"
  /\ hist.cyc.last.user = "u2"

C20_FailedCycleIsFollowedByAnother ==
  /\ [](sched.running => sched.reminder # "done" /\ sched.syncTask # "done")
  /\ \A b \in {0, 1} :
       (sched.reminder = "wait" /\ sched.lastCheck = "raised" /\ sched.checks = b)
         ~> (sched.checks # b \/ ~sched.running)
  /\ \A b \in {0, 1} :
       (sync.pc = "idle" /\ sched.lastBatch = "raised" /\ sched.batches = b)
         ~> (sched.batches # b \/ ~sched.running)

\* The scheduler is running, the last reminder check and the last batch
\* both raised, and both loops are asleep.
C20_Witness ==
  /\ sched.running
  /\ sched.reminder = "wait"
  /\ sched.lastCheck = "raised"
  /\ sched.syncTask = "alive"
  /\ sync.pc = "idle"
  /\ sched.lastBatch = "raised"

\* C21 as stated: a reminder scan at time now selects a task if and only
\* if its reminder is enabled, it has a due date, its reminder time (due
\* time minus minutesBefore) lies in [now, now + 60 s], and its
\* reminder.lastSent is absent or at least 300 s before now.
C21_ScanSelectsIffDueAndNotDebounced ==
  LET l == rem.last
  IN (rem.pc # "none" /\ l.kind = "scan") =>
       \A i \in DOMAIN l.docs :
         LET d == l.docs[i]
             reminderTime == TaskDue(d) - d.minutesBefore * 60
         IN i \in l.selected <=>
              /\ d.enabled
              /\ d.dueDate # NoDate
              /\ l.now <= reminderTime /\ reminderTime <= l.now + 60
              /\ d.lastSent = NoTime \/ d.lastSent <= l.now - 300

\* C21 amended: a reminder scan at time now selects a task if and only if
\* its reminder is enabled, its reminder.notifyDesktop is not false, it has
\* a due date, its reminder time lies in [now, now + 60 s], and its
\* reminder.lastSent is absent or at least 300 s before now.
C21_ScanSelectsIffDesktopDueAndNotDebounced ==
  LET l == rem.last
  IN (rem.pc # "none" /\ l.kind = "scan") =>
       \A i \in DOMAIN l.docs :
         LET d == l.docs[i]
             reminderTime == TaskDue(d) - d.minutesBefore * 60
         IN i \in l.selected <=>
              /\ d.enabled
              /\ d.notifyDesktop
              /\ d.dueDate # NoDate
              /\ l.now <= reminderTime /\ reminderTime <= l.now + 60
              /\ d.lastSent = NoTime \/ d.lastSent <= l.now - 300

\* A scan selected a task whose reminder time, made of dueDate and dueTime,
\* is the last second of the window and whose lastSent is exactly 300 s old.
C21_Witness ==
  /\ rem.pc # "none"
  /\ rem.last.kind = "scan"
  /\ 1 \in rem.last.selected
  /\ rem.last.docs[1].dueTime # NoTime
  /\ rem.last.docs[1].lastSent = rem.last.now - 300

\* C22: reminder.lastSent of a task is stamped only on a successful
\* dispatch, that is only when the payload was handed to the push-delivery
\* collaborator without an exception; without subscription, when the
\* hand-off raises, or when no hand-off takes place, lastSent is unchanged.
C22_StampOnlyAfterHandOff ==
  LET l == rem.last
  IN (rem.pc # "none" /\ l.kind = "send") =>
       /\ ~l.handed => rem.docs[l.task].lastSent = l.before
       /\ l.handed => rem.docs[l.task].lastSent = rem.now

(***************************************************************************)
(* The on-demand trigger.                                                  *)
(***************************************************************************)
Triggered == fcall.fn = "trigger_sync_now"

\* The request's cycle is the per-user cycle of the periodic loop for that
\* user: while it runs, the batch is that one user with the document of the
\* request, and once it returned, the caller holds the result of that user's
\* cycle.
TriggeredCycle ==
  /\ fcall.result = "pending" =>
        /\ hist.batch = <<fcall.user>>
        /\ hist.atStart = fcall.before[1]
        /\ sync.pc = "creds" =>
              sync = [IdleSync EXCEPT
                        !.pc = "creds",
                        !.queue = SelectSeq(ConnectedUsers(UserOrder),
                                            LAMBDA q : q.id = fcall.user)]
        /\ sync.pc \notin {"creds", "idle"} => sync.uid = fcall.user
  /\ fcall.result # "pending" =>
        /\ fcall.cycle.kind \in {"return", "credsNone", "cycleRaised"}
        /\ fcall.cycle.user = fcall.user
        /\ fcall.cycle.kind = "return" => fcall.result = "True"
        /\ fcall.cycle.kind = "credsNone" => fcall.result = "False"
        /\ fcall.cycle.kind = "cycleRaised" => fcall.result = "error"

GotCredentials == fcall.fn = "get_credentials_from_user"

RefreshFailed ==
  /\ fcall.doc.googleAccessToken # NoTok
  /\ fcall.expired
  /\ fcall.doc.googleRefreshToken # NoTok
  /\ fcall.refresh = "fails"

\* C24: get_credentials_from_user returns None for a user without access
\* token and None when the refresh of an expired token fails; after a failed
\* refresh it has written nothing to the user document and has left no
\* write behind.
C24_NoneWithoutTokenOrRefresh ==
  GotCredentials =>
    /\ fcall.doc.googleAccessToken = NoTok =>
          fcall.result = "None" /\ users = fcall.before /\ ~fcall.detached
    /\ RefreshFailed =>
          fcall.result = "None" /\ users = fcall.before /\ ~fcall.detached

\* A failed refresh for a user whose tokens are still on file.
C24_Witness ==
  /\ GotCredentials
  /\ RefreshFailed
  /\ fcall.result = "None"
  /\ users[fcall.user].googleAccessToken # NoTok
  /\ users[fcall.user].googleRefreshToken # NoTok

\* C25: after a successful refresh the call returns the refreshed
\* credentials, whatever the event loop and the store update did.
C25_PersistFailureStillReturnsCredentials ==
  GotCredentials /\ fcall.refreshed => fcall.result = "refreshed"
(***************************************************************************)
(* start_scheduler and stop_scheduler.                                     *)
(***************************************************************************)
\* The loop tasks of one kind that are not done.
AliveTasks(kind) ==
  (IF kind = "reminder" /\ sched.reminder \in {"wait", "check"} THEN 1 ELSE 0)
  + (IF kind = "sync" /\ sched.syncTask = "alive" THEN 1 ELSE 0)
  + (IF kind \in sched.orphans THEN 1 ELSE 0)

\* C26: under any sequence of start_scheduler and stop_scheduler calls at
\* most one reminder-loop task and at most one sync-loop task are alive; a
\* start_scheduler while started creates no loop task and a stop_scheduler
\* while not started does nothing.
C26_AtMostOneTaskOfEachLoop ==
  /\ AliveTasks("reminder") <= 1
  /\ AliveTasks("sync") <= 1
  /\ sched.call.fn = "start_scheduler" /\ sched.call.wasStarted => ~sched.call.acted
  /\ sched.call.fn = "stop_scheduler" /\ ~sched.call.wasStarted => ~sched.call.acted

\* A start_scheduler has just been ignored while the scheduler runs: a
\* batch has been begun and both loops have one task each.
C26_Witness ==
  /\ sched.call.fn = "start_scheduler"
  /\ sched.call.wasStarted
  /\ sched.stop = "no"
  /\ sched.lastBatch # "none"
  /\ sched.reminder = "wait"
  /\ sched.syncTask = "alive"
  /\ sync.pc = "idle"
(***************************************************************************)
(* Remote calls and the event loop.                                        *)
(***************************************************************************)
\* C27: while a cycle waits for the answer to a remote call, the reminder
\* loop, whose sleep is over, can take its next step.
C27_OthersStepDuringRemoteCall ==
  Waiting /\ sched.reminder = "wait" => ENABLED (~Waiting /\ ReminderWake)
(***************************************************************************)
(* The pull window.                                                        *)
(***************************************************************************)
PullPhase == {"list", "event", "mark"}

\* C28: the pull window of a cycle starts one hour (60 minutes) before the
\* user's lastCalendarSync, or 24 hours before now when there is none, and
\* ends 90 days after now; it stays the same for every calendar the cycle
\* lists.
C28_PullWindow ==
  [][/\ sync.pc = "creds" /\ sync'.pc = "list" =>
          /\ sync'.tmin = IF sync'.udoc.lastCalendarSync # NoTime
                          THEN sync'.udoc.lastCalendarSync - 60
                          ELSE clock - 24 * 60
          /\ sync'.tmax = clock + 90 * 24 * 60
          /\ sync'.udoc = Head(sync.queue).doc
     /\ sync.pc \in PullPhase /\ sync'.pc \in PullPhase =>
          sync'.tmin = sync.tmin /\ sync'.tmax = sync.tmax]_vars

\* The second calendar of a cycle is about to be listed, for a user whose
\* watermark an earlier cycle wrote, after time has passed.
C28_Witness ==
  /\ sync.pc = "list"
  /\ Len(hist.cyc.listed) = 1
  /\ sync.udoc.lastCalendarSync # NoTime
  /\ sync.tmin = sync.udoc.lastCalendarSync - Hour
  /\ sync.tmax = clock + WindowDays * Day
  /\ clock > sync.udoc.lastCalendarSync
(***************************************************************************)
(* Malformed remote timestamps.                                            *)
(***************************************************************************)
\* C29: an event with a malformed timestamp does not keep the other events
\* of its calendar from being pulled: when the pull phase is over, every
\* well-formed event of every calendar whose listing succeeded has a task.
C29_MalformedEventSkippedAlone ==
  sync.pc = "select" /\ hist.cyc.revokedAt = 0 =>
    \A i \in DOMAIN hist.cyc.listed :
      hist.cyc.listed[i] \notin hist.cyc.errored =>
        \A e \in ListedIds(sync.uid, hist.cyc.listed[i], sync.tmin, sync.tmax) :
          events[e].time # Malformed => FindByEvent(sync.uid, e) # 0
(***************************************************************************)
(* convert_event_time_to_user_tz.                                          *)
(***************************************************************************)
Converted == fcall.fn = "convert_event_time_to_user_tz"

\* The result as minutes on the calendar.
ConvertedMinutes == fcall.result.date * 1440 + fcall.result.time

\* What a string with a Z or an offset must give: the instant it names, on
\* the user's clock (the clock of UTC for an unknown zone name).
ShiftedOk ==
  LET utc == fcall.str.wall - fcall.str.off
  IN CASE fcall.tz = "America/Denver" ->
            ConvertedMinutes = utc + (IF utc >= 3420 /\ utc < 6240 THEN -360 ELSE -420)
       [] OTHER -> ConvertedMinutes = utc

Skipped ==
  /\ fcall.tz = "America/Denver"
  /\ fcall.str.wall >= 2 * 1440 + 120
  /\ fcall.str.wall < 2 * 1440 + 180

BannerSet == fcall.fn = "update_banner_settings"

\* max(0, min(100, v)), as the property test states it.
Clamped(v) == IF v < 0 THEN 0 ELSE IF v > 100 THEN 100 ELSE v

C32_ImportCreatesMissingTasks ==
  fcall.fn = "import_calendar" /\ Idle =>
    /\ \A e \in fcall.listed \ fcall.had : FindByEvent(fcall.user, e) # 0
    /\ fcall.count = Cardinality(fcall.listed \ fcall.had)
(***************************************************************************)
(* Pulled tasks and the push phase.                                        *)
(***************************************************************************)
\* C33: a task the pull phase has just created from a remote event is not
\* a candidate of the push filter, so that the push phase of the same cycle
\* sends no update for the event it came from.
C33_PulledTaskIsNoPushCandidate ==
  hist.cyc.last.kind = "create" => ~PushCandidate(tasks[hist.cyc.last.task])
(***************************************************************************)
(* The calendar a task is linked to.                                       *)
(***************************************************************************)
\* C34: after a successful update of the push phase, the task's
\* googleCalendarId is the calendar the updated event lives in, also when
\* the target calendar of the push phase is another one.
C34_UpdateKeepsCalendar ==
  /\ hist.cyc.last.kind = "push"
  /\ hist.cyc.last.op = "update"
  /\ hist.cyc.last.outcome = "ok"
  => /\ tasks[hist.cyc.last.task].googleCalendarId = hist.cyc.last.cal
     /\ events[tasks[hist.cyc.last.task].googleEventId].calendarId
          = tasks[hist.cyc.last.task].googleCalendarId
(***************************************************************************)
(* After a revocation.                                                     *)
(***************************************************************************)
\* C35: once the pull phase of a cycle has found the grant revoked and has
\* cleared the credentials, the cycle attempts no insert or update and does
\* not return True.
C35_RevokedCycleStopsAndFails ==
  /\ hist.cyc.last.kind = "push" => hist.cyc.revokedAt = 0
  /\ hist.cyc.last.kind = "return" /\ hist.cyc.last.result =>
       hist.cyc.last.user \notin hist.revoked
(***************************************************************************)
(* Duplicate remote events.                                                *)
(***************************************************************************)
\* C36: whatever cycles have run, with or without a failure of the store
\* write that follows a remote insert, no task has more than one remote
\* event: while the user has a single task and the calendar started empty,
\* the calendar holds at most one event.
C36_OneRemoteEventPerTask ==
  Cardinality(TaskIds) <= 1 => Cardinality(EventIds) <= 1

\* C37: while the batch loop and an on-demand trigger run the cycle of one
\* user at once, no two tasks of a user carry the same googleEventId, and
\* the triggered cycle inserts no task that the store already shows as
\* linked to a remote event.
C37_NoDuplicateUnderConcurrency ==
  /\ \A t1, t2 \in TaskIds :
        /\ t1 # t2
        /\ tasks[t1].user = tasks[t2].user
        /\ tasks[t1].googleEventId # NoEvent
        => tasks[t1].googleEventId # tasks[t2].googleEventId
  /\ (/\ fcall.fn = "sync_user_calendar"
      /\ fcall.last.kind = "push"
      /\ fcall.last.op = "insert") => fcall.last.stored = NoEvent

\* C38: after a disconnect request has completed, also one served while a
\* cycle of that user was running, the user's access token, refresh token
\* and lastCalendarSync stay null and the user has no task linked to a
\* remote event.
C38_StaysDisconnected ==
  fcall.fn = "disconnect_google" =>
    /\ users[fcall.user].googleAccessToken = NoTok
    /\ users[fcall.user].googleRefreshToken = NoTok
    /\ users[fcall.user].lastCalendarSync = NoTime
    /\ \A t \in TasksOf(fcall.user) : tasks[t].googleEventId = NoEvent

\* C39: when the pull phase overwrites a task from the event that the last
\* push of this task wrote, unmodified since, the task's title,
\* description, dueDate and dueTime are what they were before: the footer
\* of the remote description is not written into the local description.
C39_PushThenPullKeepsTask ==
  hist.cyc.last.kind = "overwrite" =>
    LET before == hist.cyc.last.before
        ev == hist.cyc.last.ev
        now == tasks[hist.cyc.last.task]
    IN (/\ ev.updated = before.lastSyncedAt
        /\ [summary |-> ev.summary, description |-> ev.description,
            start |-> ev.start, time |-> ev.time]
             = BuildGoogleCalendarEvent(before))
       => /\ now.title = before.title
          /\ now.description = before.description
          /\ now.dueDate = before.dueDate
          /\ now.dueTime = before.dueTime

\* C40: between two consecutive scans of the reminder loop no reminder is
\* missed: a task with an enabled desktop reminder, never sent, whose
\* reminder time lies between the instant of the last scan and the end of
\* the window of the next one passes the filter of one of the two scans.
C40_NoReminderMissed ==
  (rem.pc = "sleep" /\ rem.last.kind = "slept") =>
    \A i \in DOMAIN rem.docs :
      LET doc == rem.docs[i]
          reminderTime == TaskDue(doc) - doc.minutesBefore * 60
      IN (/\ doc.enabled
          /\ doc.notifyDesktop
          /\ doc.lastSent = NoTime
          /\ doc.dueDate # NoDate
          /\ rem.last.from <= reminderTime
          /\ reminderTime <= rem.now + ReminderWindow)
         => \/ NeedsReminder(doc, rem.last.from)
            \/ NeedsReminder(doc, rem.now)
====
